---- MODULE Spec2Model ----
(***************************************************************************)
(* Model of the mathgrader grading pipeline of SideKick:                   *)
(*   app/mathgrader/grading/math_comparator.py  (MathComparator)           *)
(*   app/mathgrader/grading/grading_engine.py   (GradingEngine)            *)
(*   app/mathgrader/models/{rubric,submission,grade_result}.py             *)
(*                                                                         *)
(* Conventions.                                                            *)
(*  - A Python str is a sequence of one-character strings; "" is << >>.    *)
(*  - Points are integers.  Confidences are integers in hundredths         *)
(*    (1.0 is 100, 0.95 is 95, 0.5 is 50).                                 *)
(*  - A percentage is an exact fraction [num, den] in lowest terms.        *)
(*  - SymPy is a library outside the repository: what its calls return is  *)
(*    an environment choice `sym`, one field per call site.                *)
(***************************************************************************)
EXTENDS Integers, Sequences, FiniteSets, TLC

VARIABLES
    rubric,           \* grade(): the Rubric argument
    submission,       \* grade(): the Submission argument
    pc,               \* grade(): "grading" (in the loop), "done", "raised";
                      \* compare(): "compare" (called), "compared" (returned)
    i,                \* grade(): number of sub-questions graded so far
    question_grades,  \* grade(): local list question_grades
    total_score,      \* grade(): local running total_score
    compare_log,      \* ids for which self.comparator.compare was invoked
    result,           \* the GradeResult returned by grade(), or NoResult
    cmp_in,           \* compare(): the arguments of the last call, or NoCall
    cmp_out,          \* compare(): what the last call returned, or NoCall
    pdf_files,        \* parse_batch(): the documents that pdf_dir.glob found
    submissions,      \* parse_batch(): local list submissions
    pdf_text,         \* RubricParser.parse(): raw_text, the text of the PDF
    pdf_path,         \* RubricParser.parse(): the file that pdf_path names
    cache_path,       \* RubricParser: the file that _cache_path(pdf_path) names
    use_cache,        \* RubricParser.parse(): the use_cache argument
    cached,           \* RubricParser.parse(): local cached, << >> for None
    cache_dir,        \* RubricParser: the files of cache_dir, by file name
    written_for,      \* history: the document each file of cache_dir was written for
    clock,            \* the time that file writes stamp as st_mtime
    results,          \* grade_batch(): local list results
    loaded_rubrics,   \* tools.py: the registry _loaded_rubrics
    tool_in,          \* tools.py: the arguments of the last tool call, or NoResult
    tool_out,         \* tools.py: what the last tool call returned, or NoResult
    answer_text,      \* _calculate_confidence(): its argument
    calc_confidence   \* _calculate_confidence(): what it returned, or NoResult

vars == << rubric, submission, pc, i, question_grades, total_score,
           compare_log, result, cmp_in, cmp_out,
           pdf_files, submissions, pdf_text, pdf_path, cache_path,
           use_cache, cached, cache_dir, written_for, clock,
           results, loaded_rubrics, tool_in, tool_out,
           answer_text, calc_confidence >>

gradeVars == << rubric, submission, pc, i, question_grades, total_score,
                compare_log, result >>

cmpVars == << cmp_in, cmp_out >>

gradeVarsButPc == << rubric, submission, i, question_grades, total_score,
                     compare_log, result >>

dirVars == << cache_dir, written_for, clock >>

cacheVars == << use_cache, cached, dirVars >>

toolVars == << results, loaded_rubrics, tool_in, tool_out >>

parserVars == << pdf_files, submissions, pdf_text, pdf_path, cache_path,
                answer_text, calc_confidence, cacheVars, toolVars >>

(***************************************************************************)
(* Bounds of the model.                                                    *)
(***************************************************************************)
MaxLen == 3          \* longest answer string given to compare()
MaxSubQ == 2         \* most sub-questions in a rubric given to grade()
MaxRun == 3          \* most sub-questions in a penalty-only rubric

(***************************************************************************)
(* Strings.                                                                *)
(***************************************************************************)
Alphabet == {" ", "T", "f"}

Whitespace == {" ", "\t", "\n"}

UpperLetter == {"A", "B", "C", "D", "E", "F", "G", "H", "I", "J", "K", "L", "M",
                "N", "O", "P", "Q", "R", "S", "T", "U", "V", "W", "X", "Y", "Z"}

UpperToLower ==
    [c \in UpperLetter |->
        CASE c = "A" -> "a" [] c = "B" -> "b" [] c = "C" -> "c" [] c = "D" -> "d" [] c = "E" -> "e"
          [] c = "F" -> "f" [] c = "G" -> "g" [] c = "H" -> "h" [] c = "I" -> "i" [] c = "J" -> "j"
          [] c = "K" -> "k" [] c = "L" -> "l" [] c = "M" -> "m" [] c = "N" -> "n" [] c = "O" -> "o"
          [] c = "P" -> "p" [] c = "Q" -> "q" [] c = "R" -> "r" [] c = "S" -> "s" [] c = "T" -> "t"
          [] c = "U" -> "u" [] c = "V" -> "v" [] c = "W" -> "w" [] c = "X" -> "x" [] c = "Y" -> "y"
          [] c = "Z" -> "z"]

StringsUpTo(n) == UNION { [1..k -> Alphabet] : k \in 0..n }

\* str.lower()
Lower(s) == [k \in 1..Len(s) |->
                IF s[k] \in DOMAIN UpperToLower THEN UpperToLower[s[k]] ELSE s[k]]

\* str.lstrip() / str.rstrip() / str.strip()
RECURSIVE LStrip(_)
LStrip(s) == IF s # << >> /\ Head(s) \in Whitespace THEN LStrip(Tail(s)) ELSE s

RECURSIVE RStrip(_)
RStrip(s) == IF s # << >> /\ s[Len(s)] \in Whitespace
             THEN RStrip(SubSeq(s, 1, Len(s) - 1)) ELSE s

Strip(s) == RStrip(LStrip(s))

\* str.rstrip(chars)
RECURSIVE RStripChars(_, _)
RStripChars(s, chars) == IF s # << >> /\ s[Len(s)] \in chars
                         THEN RStripChars(SubSeq(s, 1, Len(s) - 1), chars) ELSE s

\* re.sub(r'\s+', ' ', text): every maximal run of whitespace becomes one ' '
RECURSIVE CollapseWhitespace(_)
CollapseWhitespace(s) ==
    IF s = << >> THEN << >>
    ELSE IF Head(s) \in Whitespace
         THEN << " " >> \o CollapseWhitespace(LStrip(s))
         ELSE << Head(s) >> \o CollapseWhitespace(Tail(s))

\* x in s, for a one-character x
Contains(s, c) == \E k \in 1..Len(s) : s[k] = c

\* s.startswith(p)
StartsWith(s, p) == Len(p) <= Len(s) /\ SubSeq(s, 1, Len(p)) = p

\* str.replace(old, new), leftmost non-overlapping occurrences, old non-empty
RECURSIVE Replace(_, _, _)
Replace(s, old, new) ==
    IF Len(s) < Len(old) THEN s
    ELSE IF StartsWith(s, old)
         THEN new \o Replace(SubSeq(s, Len(old) + 1, Len(s)), old, new)
         ELSE << Head(s) >> \o Replace(Tail(s), old, new)

(***************************************************************************)
(* models/rubric.py: the enums.                                            *)
(***************************************************************************)
QuestionType == {"TRUE_FALSE", "NUMERIC", "PROBABILITY", "BIG_O", "PROOF",
                 "MULTIPLE_CHOICE", "SHORT_ANSWER", "GRAPHING"}

GradingRuleType == {"EXACT_MATCH", "EQUIVALENT", "PER_ITEM_PENALTY",
                    "NO_PARTIAL", "PARTIAL_CREDIT"}

(***************************************************************************)
(* grading/math_comparator.py: MathComparator.                             *)
(***************************************************************************)
None == "None"

\* A comparison verdict: the (is_correct, confidence) tuple that compare returns,
\* and `called`, the type-specific method compare delegated to ("none": compare
\* returned from its own body).
Verdict(ok, conf, called) == [is_correct |-> ok, confidence |-> conf, called |-> called]

\* What the SymPy calls of one compare() return.
\*   parse_student, parse_correct: _parse_math found an expression (else None)
\*   simplify: simplify(student_expr - correct_expr) is 0 / is not 0 / raises
\*   evalf:    |float(N(s)) - float(N(c))| < 1e-6 / not / TypeError, ValueError
\*   percent:  |float(s) * 100 - float(c)| < 1e-6 / not / raises
\*   big_o:    simplify(parse_expr(s) - parse_expr(c)) is 0 / is not 0 / raises
SympyDefault == [parse_student |-> TRUE, parse_correct |-> TRUE, simplify |-> "nonzero",
                 evalf |-> "far", percent |-> "far", big_o |-> "nonzero"]

NumericOutcomes ==
    { [SympyDefault EXCEPT !.parse_student = ps, !.parse_correct = pcor] :
          ps \in BOOLEAN, pcor \in BOOLEAN }
    \cup { [SympyDefault EXCEPT !.simplify = sv] : sv \in {"zero", "raises"} }
    \cup { [SympyDefault EXCEPT !.evalf = ev] : ev \in {"close", "far", "raises"} }

SympyOutcomes(question_type) ==
    CASE question_type = "NUMERIC" -> NumericOutcomes
      [] question_type = "PROBABILITY" ->
            { [o EXCEPT !.percent = pv] : o \in NumericOutcomes,
                                          pv \in {"close", "far", "raises"} }
      [] question_type = "BIG_O" ->
            { [SympyDefault EXCEPT !.big_o = bv] : bv \in {"zero", "nonzero", "raises"} }
      [] OTHER -> { SympyDefault }

\* _normalize ("" stands for None as well: `if not text: return ""`)
Normalize(text) ==
    IF text = << >> THEN << >>
    ELSE CollapseWhitespace(Lower(Strip(text)))

true_values == { <<"t","r","u","e">>, <<"t">>, <<"1">>, <<"y","e","s">>, <<"y">> }

false_values == { <<"f","a","l","s","e">>, <<"f">>, <<"0">>, <<"n","o">>, <<"n">> }

\* _compare_boolean
CompareBoolean(student, correct) ==
    LET student_bool == IF student \in true_values THEN "True"
                        ELSE IF student \in false_values THEN "False" ELSE None
        correct_bool == IF correct \in true_values THEN "True"
                        ELSE IF correct \in false_values THEN "False" ELSE None
    IN IF student_bool = None \/ correct_bool = None
       THEN Verdict(FALSE, 50, "_compare_boolean")
       ELSE Verdict(student_bool = correct_bool, 100, "_compare_boolean")

\* _parse_math: None for an empty string, else what SymPy makes of it
ParseMath(expr, parsed) == IF expr = << >> THEN None ELSE IF parsed THEN "expr" ELSE None

\* _compare_numeric
CompareNumeric(student, correct, sym) ==
    LET student_expr == ParseMath(student, sym.parse_student)
        correct_expr == ParseMath(correct, sym.parse_correct)
    IN IF student_expr = None \/ correct_expr = None
       THEN Verdict(FALSE, 50, "_compare_numeric")
       ELSE IF sym.simplify = "raises" THEN Verdict(FALSE, 50, "_compare_numeric")
       ELSE IF sym.simplify = "zero" THEN Verdict(TRUE, 100, "_compare_numeric")
       ELSE IF sym.evalf = "close" THEN Verdict(TRUE, 95, "_compare_numeric")
       ELSE Verdict(FALSE, 90, "_compare_numeric")

\* _compare_probability
CompareProbability(student0, correct0, sym) ==
    LET student == RStripChars(student0, {"%"})
        correct == RStripChars(correct0, {"%"})
        parsed  == /\ ParseMath(student, sym.parse_student) # None
                   /\ ParseMath(correct, sym.parse_correct) # None
    IN IF Contains(correct, "%") /\ parsed /\ sym.percent = "close"
       THEN Verdict(TRUE, 95, "_compare_probability")
       ELSE [CompareNumeric(student, correct, sym) EXCEPT !.called = "_compare_probability"]

\* _extract_big_o: re.search(r'[oO]\s*\(\s*(.+?)\s*\)', expr), else expr.strip()
ExtractBigO(expr) ==
    LET n == Len(expr)
        AllWs(a, b) == \A r \in a..b : expr[r] \in Whitespace
        Paren(p) == { q \in (p + 1)..n : expr[q] = "(" /\ AllWs(p + 1, q - 1) }
        Closes(ge) == \E j \in (ge + 1)..n : expr[j] = ")" /\ AllWs(ge + 1, j - 1)
        GroupOk(gs, ge) == /\ gs <= ge
                           /\ \A r \in gs..ge : expr[r] # "\n"
                           /\ Closes(ge)
        Starts(q) == { gs \in (q + 1)..n :
                          AllWs(q + 1, gs - 1) /\ \E ge \in gs..n : GroupOk(gs, ge) }
        Matches(p) == /\ expr[p] \in {"o", "O"}
                      /\ \E q \in Paren(p) : Starts(q) # {}
        Found == { p \in 1..n : Matches(p) }
    IN IF Found = {} THEN Strip(expr)
       ELSE LET p  == CHOOSE x \in Found : \A y \in Found : x <= y
                q  == CHOOSE x \in Paren(p) : TRUE
                gs == CHOOSE x \in Starts(q) : \A y \in Starts(q) : y <= x
                ge == CHOOSE x \in gs..n :
                          GroupOk(gs, x) /\ \A y \in gs..n : GroupOk(gs, y) => x <= y
            IN SubSeq(expr, gs, ge)

\* _normalize_big_o
NormalizeBigO(expr) ==
    LET e1 == Lower(expr)
        e2 == Replace(e1, <<" ">>, << >>)
        e3 == Replace(e2, <<"^">>, <<"*", "*">>)
        e4 == Replace(e3, <<"l","o","g","(","n",")">>, <<"l","o","g","n">>)
    IN Replace(e4, <<"l","o","g"," ","n">>, <<"l","o","g","n">>)

\* _compare_big_o
CompareBigO(student, correct, sym) ==
    LET student_inner == ExtractBigO(student)
        correct_inner == ExtractBigO(correct)
    IN IF student_inner = << >> \/ correct_inner = << >>
       THEN Verdict(FALSE, 50, "_compare_big_o")
       ELSE IF NormalizeBigO(student_inner) = NormalizeBigO(correct_inner)
       THEN Verdict(TRUE, 100, "_compare_big_o")
       ELSE IF sym.big_o = "zero" THEN Verdict(TRUE, 95, "_compare_big_o")
       ELSE Verdict(FALSE, 80, "_compare_big_o")

\* _compare_multiple_choice
CompareMultipleChoice(student, correct) ==
    LET student_letter == IF student # << >> THEN << student[1] >> ELSE << >>
        correct_letter == IF correct # << >> THEN << correct[1] >> ELSE << >>
    IN Verdict(student_letter = correct_letter, 100, "_compare_multiple_choice")

\* compare, lines 101-119, with the final else returning the "uncertain" 0.5
TypeSpecific_ElseHalf(student, correct, question_type, sym) ==
    CASE question_type = "TRUE_FALSE" -> CompareBoolean(student, correct)
      [] question_type = "NUMERIC" -> CompareNumeric(student, correct, sym)
      [] question_type = "PROBABILITY" -> CompareProbability(student, correct, sym)
      [] question_type = "BIG_O" -> CompareBigO(student, correct, sym)
      [] question_type = "MULTIPLE_CHOICE" -> CompareMultipleChoice(student, correct)
      [] OTHER -> Verdict(FALSE, 50, "none")

\* compare, lines 101-119: the type-specific comparison
TypeSpecific(student, correct, question_type, sym) ==
    CASE question_type = "TRUE_FALSE" -> CompareBoolean(student, correct)
      [] question_type = "NUMERIC" -> CompareNumeric(student, correct, sym)
      [] question_type = "PROBABILITY" -> CompareProbability(student, correct, sym)
      [] question_type = "BIG_O" -> CompareBigO(student, correct, sym)
      [] question_type = "MULTIPLE_CHOICE" -> CompareMultipleChoice(student, correct)
      [] OTHER -> Verdict(FALSE, 30, "none")

\* compare without the exact-match fast path
Compare_NoExactMatch(student_answer, correct_answer, question_type, equivalent_forms, sym) ==
    LET student == Normalize(student_answer)
        correct == Normalize(correct_answer)
    IN IF student = << >> THEN Verdict(FALSE, 100, "none")
       ELSE IF /\ equivalent_forms # << >>
               /\ \E k \in 1..Len(equivalent_forms) :
                      student = Normalize(equivalent_forms[k])
       THEN Verdict(TRUE, 100, "none")
       ELSE TypeSpecific(student, correct, question_type, sym)

\* compare with the exact-match test ahead of the empty-answer test
Compare_ExactBeforeEmpty(student_answer, correct_answer, question_type, equivalent_forms, sym) ==
    LET student == Normalize(student_answer)
        correct == Normalize(correct_answer)
    IN IF student = correct THEN Verdict(TRUE, 100, "none")
       ELSE IF student = << >> THEN Verdict(FALSE, 100, "none")
       ELSE IF /\ equivalent_forms # << >>
               /\ \E k \in 1..Len(equivalent_forms) :
                      student = Normalize(equivalent_forms[k])
       THEN Verdict(TRUE, 100, "none")
       ELSE TypeSpecific(student, correct, question_type, sym)

\* compare
Compare(student_answer, correct_answer, question_type, equivalent_forms, sym) ==
    LET student == Normalize(student_answer)
        correct == Normalize(correct_answer)
    IN IF student = << >> THEN Verdict(FALSE, 100, "none")
       ELSE IF student = correct THEN Verdict(TRUE, 100, "none")
       ELSE IF /\ equivalent_forms # << >>
               /\ \E k \in 1..Len(equivalent_forms) :
                      student = Normalize(equivalent_forms[k])
       THEN Verdict(TRUE, 100, "none")
       ELSE TypeSpecific(student, correct, question_type, sym)

(***************************************************************************)
(* The comparator on its own: one compare() call on arguments drawn from   *)
(* the bounded sets below.  MathComparator keeps no state between calls.   *)
(***************************************************************************)
\* cmp_out before compare() has returned
NoCall == [is_correct |-> FALSE, confidence |-> 0, called |-> "NoCall"]

NoResult == "NoResult"

\* a path at which there is no file
NoFile == [exists |-> FALSE]

\* the cache directory is not in use
CacheDirIdle == cache_dir = << >> /\ written_for = << >> /\ clock = 0

\* no call of RubricParser.parse has been made
CacheIdle == use_cache = FALSE /\ cached = << >> /\ CacheDirIdle

\* no tool of tools.py and no grade_batch has been called
ToolsIdle == results = << >> /\ loaded_rubrics = << >> /\ tool_in = NoResult /\ tool_out = NoResult

\* no parser call is in progress
ParsersIdle ==
    /\ CacheIdle
    /\ ToolsIdle
    /\ pdf_files = << >>
    /\ submissions = << >>
    /\ pdf_text = << >>
    /\ pdf_path = NoFile
    /\ cache_path = NoFile
    /\ answer_text = << >>
    /\ calc_confidence = NoResult

\* The equivalent_forms lists tried: None/[], [""], and a list whose entries
\* need normalizing.
EquivalentFormLists == { << >>, << << >> >>, << <<"f">>, <<" ", "T">> >> }

CompareInputs ==
    [ student_answer : StringsUpTo(MaxLen),
      correct_answer : StringsUpTo(MaxLen),
      question_type : QuestionType,
      equivalent_forms : EquivalentFormLists ]

InitCompare ==
    /\ cmp_in \in CompareInputs
    /\ cmp_out = NoCall
    /\ rubric = NoResult
    /\ submission = NoResult
    /\ pc = "compare"
    /\ i = 0
    /\ question_grades = << >>
    /\ total_score = 0
    /\ compare_log = << >>
    /\ result = NoResult
    /\ ParsersIdle

CompareCall ==
    /\ pc = "compare"
    /\ pc' = "compared"
    /\ \E sym \in SympyOutcomes(cmp_in.question_type) :
          cmp_out' = Compare(cmp_in.student_answer, cmp_in.correct_answer,
                             cmp_in.question_type, cmp_in.equivalent_forms, sym)
    /\ UNCHANGED << cmp_in, rubric, submission, i, question_grades, total_score,
                    compare_log, result, parserVars >>

NextCompare == CompareCall

SpecCompare == InitCompare /\ [][NextCompare]_vars

(***************************************************************************)
(* models/rubric.py, models/submission.py, models/grade_result.py.         *)
(* Fields that grading never reads (texts, notes, explanation, course,     *)
(* file_path, timestamps) are left out.                                    *)
(***************************************************************************)
\* GradingRule
GradingRule(rule_type, points_correct, points_incorrect, minimum_score) ==
    [rule_type |-> rule_type, points_correct |-> points_correct,
     points_incorrect |-> points_incorrect, minimum_score |-> minimum_score]

\* Solution
Solution(value, equivalent_forms) == [value |-> value, equivalent_forms |-> equivalent_forms]

\* SubQuestion
SubQuestion(id, points, grading_rule, solution, question_type) ==
    [id |-> id, points |-> points, grading_rule |-> grading_rule,
     solution |-> solution, question_type |-> question_type]

\* StudentAnswer
StudentAnswer(question_id, raw_text, parsed_value, confidence) ==
    [question_id |-> question_id, raw_text |-> raw_text,
     parsed_value |-> parsed_value, confidence |-> confidence]

\* QuestionGrade.feedback: the message and the two answers it quotes
Feedback(text, student_answer, correct_answer) ==
    [text |-> text, student_answer |-> student_answer, correct_answer |-> correct_answer]

\* QuestionGrade
QuestionGrade(id, earned, possible, ok, student, correct, feedback, notes) ==
    [question_id |-> id, points_earned |-> earned,
     points_possible |-> possible, is_correct |-> ok,
     student_answer |-> student, correct_answer |-> correct,
     feedback |-> feedback, grading_notes |-> notes]

\* Submission.get_answer: the first answer with that id; << >> stands for None
GetAnswer(sub, question_id) ==
    LET hits == { k \in 1..Len(sub.answers) : sub.answers[k].question_id = question_id }
    IN IF hits = {} THEN << >>
       ELSE << sub.answers[CHOOSE k \in hits : \A m \in hits : k <= m] >>

(***************************************************************************)
(* grading/grading_engine.py: GradingEngine.                               *)
(***************************************************************************)
RECURSIVE SumSeq(_)
SumSeq(xs) == IF xs = << >> THEN 0 ELSE Head(xs) + SumSeq(Tail(xs))

RECURSIVE Flatten(_)
Flatten(xss) == IF xss = << >> THEN << >> ELSE Head(xss) \o Flatten(Tail(xss))

Max(a, b) == IF a >= b THEN a ELSE b

RECURSIVE Gcd(_, _)
Gcd(a, b) == IF b = 0 THEN a ELSE Gcd(b, a % b)

Abs(a) == IF a < 0 THEN -a ELSE a

\* a / b as an exact fraction in lowest terms; b = 0 is Python's ZeroDivisionError
ZeroDivisionError == [num |-> 0, den |-> 0]

Divide(a, b) ==
    IF b = 0 THEN ZeroDivisionError
    ELSE LET g == Gcd(Abs(a), Abs(b))
             sgn == IF b < 0 THEN -1 ELSE 1
         IN [num |-> sgn * (a \div g), den |-> sgn * (b \div g)]

\* the order of grade()'s nested loops over questions and sub_questions
SubQuestionsOf(r) == Flatten([q \in 1..Len(r.questions) |-> r.questions[q].sub_questions])

\* _apply_grading_rule with the rule kinds after PARTIAL_CREDIT scoring nothing
ApplyGradingRule_OtherKindsZero(is_correct, rule, max_points) ==
    IF rule.rule_type = "NO_PARTIAL"
    THEN IF is_correct THEN max_points ELSE 0
    ELSE IF rule.rule_type = "PER_ITEM_PENALTY"
    THEN LET points == IF is_correct THEN rule.points_correct ELSE rule.points_incorrect
         IN Max(rule.minimum_score, points)
    ELSE IF rule.rule_type = "PARTIAL_CREDIT"
    THEN IF is_correct THEN max_points ELSE 0
    ELSE 0

\* _apply_grading_rule with the per-item penalty not floored at minimum_score
ApplyGradingRule_NoFloor(is_correct, rule, max_points) ==
    IF rule.rule_type = "PER_ITEM_PENALTY"
    THEN IF is_correct THEN rule.points_correct ELSE rule.points_incorrect
    ELSE IF is_correct THEN max_points ELSE 0

\* _apply_grading_rule
ApplyGradingRule(is_correct, rule, max_points) ==
    IF rule.rule_type = "NO_PARTIAL"
    THEN IF is_correct THEN max_points ELSE 0
    ELSE IF rule.rule_type = "PER_ITEM_PENALTY"
    THEN LET points == IF is_correct THEN rule.points_correct ELSE rule.points_incorrect
         IN Max(rule.minimum_score, points)
    ELSE IF rule.rule_type = "PARTIAL_CREDIT"
    THEN IF is_correct THEN max_points ELSE 0
    ELSE IF is_correct THEN max_points ELSE 0

\* _generate_feedback
GenerateFeedback(is_correct, student_answer, correct_answer, question_type) ==
    IF is_correct THEN Feedback("Correct!", << >>, << >>)
    ELSE Feedback("Incorrect. Your answer: {}. Correct answer: {}",
                  student_answer, correct_answer)

\* _generate_overall_feedback
GenerateOverallFeedback(grades) ==
    LET IsIncorrect(qg) == ~qg.is_correct
        incorrect == SelectSeq(grades, IsIncorrect)
    IN IF incorrect = << >>
       THEN [text |-> "Excellent work! All answers are correct.", items |-> << >>]
       ELSE [text |-> "Overall good effort. Areas for improvement:",
             items |-> [k \in 1..Len(incorrect) |->
                          << incorrect[k].question_id, incorrect[k].feedback >>]]

\* _grade_question, line 137, testing only `not student_answer`
NoAnswerProvided_NoneOnly(student_answer) == student_answer = << >>

\* _grade_question, line 137: `not student_answer or not student_answer.raw_text`
NoAnswerProvided(student_answer) ==
    student_answer = << >> \/ student_answer[1].raw_text = << >>

\* _grade_question, line 149, with `<=` for `<`
LowConfidence_Inclusive(student_answer) == student_answer[1].confidence <= 50

\* _grade_question, line 149: `student_answer.confidence < 0.5`
LowConfidence(student_answer) == student_answer[1].confidence < 50

\* _grade_question; student_answer is << >> (None) or << answer >>.
\* `compared` tells whether self.comparator.compare was called.
GradeQuestion(sub_question, student_answer, sym) ==
    IF NoAnswerProvided(student_answer)
    THEN [compared |-> FALSE,
          grade |-> QuestionGrade(sub_question.id, 0, sub_question.points, FALSE,
                                  << >>, sub_question.solution.value,
                                  Feedback("No answer provided.", << >>, << >>), None)]
    ELSE IF LowConfidence(student_answer)
    THEN [compared |-> FALSE,
          grade |-> QuestionGrade(sub_question.id, 0, sub_question.points, FALSE,
                                  student_answer[1].raw_text, sub_question.solution.value,
                                  Feedback("Could not reliably extract answer. Flagged for manual review.",
                                           << >>, << >>),
                                  "Low confidence extraction")]
    ELSE LET v == Compare(student_answer[1].parsed_value, sub_question.solution.value,
                          sub_question.question_type,
                          sub_question.solution.equivalent_forms, sym)
             grading_notes == IF v.confidence < 70 THEN "Answer comparison uncertain" ELSE None
             points == ApplyGradingRule(v.is_correct, sub_question.grading_rule,
                                        sub_question.points)
             feedback == GenerateFeedback(v.is_correct, student_answer[1].parsed_value,
                                          sub_question.solution.value,
                                          sub_question.question_type)
         IN [compared |-> TRUE,
             grade |-> QuestionGrade(sub_question.id, points, sub_question.points,
                                     v.is_correct, student_answer[1].parsed_value,
                                     sub_question.solution.value, feedback, grading_notes)]

\* grade, line 88, without the `if rubric.total_points > 0` guard
Percentage_Unguarded(score, total_points) == Divide(100 * score, total_points)

\* grade, line 88: the percentage expression
Percentage(score, total_points) ==
    IF total_points > 0 THEN Divide(100 * score, total_points) ELSE Divide(0, 1)

\* grade, line 79, with the global minimum left out
FinalScore_NoClamp(score) == score

\* grade, line 79: total_score = max(0, total_score)
FinalScore(score) == Max(0, score)

\* grade, lines 81-91: the GradeResult constructor call; needs_review and
\* review_reasons are not passed and take the defaults of models/grade_result.py
GradeResult(sub, r, grades, score) ==
    [student_id |-> sub.student_id,
     assignment_id |-> sub.assignment_id,
     submission_id |-> << sub.student_id, sub.assignment_id >>,
     question_grades |-> grades,
     total_score |-> score,
     total_possible |-> r.total_points,
     percentage |-> Percentage(score, r.total_points),
     overall_feedback |-> GenerateOverallFeedback(grades),
     graded_by |-> "MathGrader AI",
     needs_review |-> FALSE,
     review_reasons |-> << >>]

\* grade, lines 66-76: one iteration of the loop over the sub-questions
GradeStep ==
    /\ pc = "grading"
    /\ i < Len(SubQuestionsOf(rubric))
    /\ LET sub_q == SubQuestionsOf(rubric)[i + 1]
           student_answer == GetAnswer(submission, sub_q.id)
       IN \E sym \in SympyOutcomes(sub_q.question_type) :
             LET g == GradeQuestion(sub_q, student_answer, sym)
             IN /\ question_grades' = Append(question_grades, g.grade)
                /\ total_score' = total_score + g.grade.points_earned
                /\ compare_log' = IF g.compared THEN Append(compare_log, sub_q.id)
                                  ELSE compare_log
    /\ i' = i + 1
    /\ UNCHANGED << rubric, submission, pc, result, cmpVars, parserVars >>

\* grade, lines 78-91: the global minimum and the returned GradeResult
GradeFinish ==
    /\ pc = "grading"
    /\ i = Len(SubQuestionsOf(rubric))
    /\ LET final == FinalScore(total_score)
           res == GradeResult(submission, rubric, question_grades, final)
       IN /\ total_score' = final
          /\ IF res.percentage = ZeroDivisionError
             THEN pc' = "raised" /\ result' = NoResult
             ELSE pc' = "done" /\ result' = res
    /\ UNCHANGED << rubric, submission, i, question_grades, compare_log, cmpVars,
                    parserVars >>

(***************************************************************************)
(* The inputs of grade(): rubrics and submissions as the parsers and the   *)
(* integration test build them.                                            *)
(***************************************************************************)
Letters == << "a", "b" >>

BasePoints == {0, 1}

\* Sub-questions before they get their id: one per rule kind the engine
\* tells apart, over question types with a certain, an uncertain and a
\* SymPy-decided comparison.
SubQuestionTemplates ==
    { SubQuestion(None, 2, GradingRule("NO_PARTIAL", 2, 0, 0),
                  Solution(<<"T">>, << >>), "TRUE_FALSE"),
      SubQuestion(None, 1, GradingRule("PER_ITEM_PENALTY", 1, -1, 0),
                  Solution(<<"T">>, << <<"t">>, <<"T">> >>), "TRUE_FALSE"),
      SubQuestion(None, 2, GradingRule("PER_ITEM_PENALTY", 3, -2, -1),
                  Solution(<<"f">>, << >>), "NUMERIC"),
      SubQuestion(None, 1, GradingRule("PER_ITEM_PENALTY", 1, -1, 2),
                  Solution(<<"T">>, << >>), "MULTIPLE_CHOICE"),
      SubQuestion(None, 2, GradingRule("PARTIAL_CREDIT", 2, 0, 0),
                  Solution(<<"T">>, << >>), "SHORT_ANSWER"),
      SubQuestion(None, 1, GradingRule("EXACT_MATCH", 1, 0, 0),
                  Solution(<<"T">>, << >>), "BIG_O") }

\* Sub-questions under the +1/-1 rule with floor 0 (test_grading.py, 1a)
PenaltyTemplates ==
    { SubQuestion(None, 1, GradingRule("PER_ITEM_PENALTY", 1, -1, 0),
                  Solution(<<"T">>, << >>), "TRUE_FALSE") }

\* What a submission holds for one sub-question: nothing at all (Absent),
\* the parser's placeholder, a low-confidence extraction of the right
\* answer, the right answer at the threshold, a wrong answer.
Absent == StudentAnswer(None, << >>, << >>, -1)

AnswerChoices ==
    { Absent,
      StudentAnswer(None, << >>, << >>, 0),
      StudentAnswer(None, <<"T">>, <<"T">>, 40),
      StudentAnswer(None, <<"T">>, <<"T">>, 50),
      StudentAnswer(None, <<"f">>, <<"f">>, 95) }

SeqsUpTo(S, n) == UNION { [1..k -> S] : k \in 0..n }

\* The id the rubric parser gives the s-th of the n sub-questions of question
\* q: f"{q_num}{letter}", or str(q_num) for a question without parts
IdOf(q, s, n) == IF n < 2 THEN << q >> ELSE << q, Letters[s] >>

\* A rubric from its sub-questions in order, `per` of them per question,
\* totals as rubric_parser.py aggregates them
MakeRubric(base_points, flat, per) ==
    LET nq  == (Len(flat) + per - 1) \div per
        Count(q) == IF q * per <= Len(flat) THEN per ELSE Len(flat) - (q - 1) * per
        Subs(q) == [k \in 1..Count(q) |->
                       [flat[(q - 1) * per + k] EXCEPT !.id = IdOf(q, k, Count(q))]]
        qs == [q \in 1..nq |->
                  [number |-> q, sub_questions |-> Subs(q),
                   total_points |-> SumSeq([k \in 1..Count(q) |-> Subs(q)[k].points])]]
    IN [assignment_id |-> "HW10",
        base_points |-> base_points,
        questions |-> qs,
        total_points |-> base_points + SumSeq([q \in 1..nq |-> qs[q].total_points])]

\* A submission from one choice per sub-question, in key order
MakeSubmission(r, choices) ==
    LET ids == [k \in 1..Len(choices) |-> SubQuestionsOf(r)[k].id]
        all == [k \in 1..Len(choices) |-> [choices[k] EXCEPT !.question_id = ids[k]]]
        Present(a) == a.confidence >= 0
    IN [student_id |-> "student_001",
        assignment_id |-> r.assignment_id,
        answers |-> SelectSeq(all, Present)]

InitGrade(templates, n) ==
    /\ \E base_points \in BasePoints, flat \in SeqsUpTo(templates, n),
          per \in 1..Len(Letters) :
          /\ rubric = MakeRubric(base_points, flat, per)
          /\ \E choices \in [1..Len(flat) -> AnswerChoices] :
                submission = MakeSubmission(MakeRubric(base_points, flat, per), choices)
    /\ pc = "grading"
    /\ i = 0
    /\ question_grades = << >>
    /\ total_score = rubric.base_points
    /\ compare_log = << >>
    /\ result = NoResult
    /\ cmp_in = NoCall
    /\ cmp_out = NoCall
    /\ ParsersIdle

Init == InitGrade(SubQuestionTemplates, MaxSubQ)

Next == GradeStep \/ GradeFinish

Spec == Init /\ [][Next]_vars

\* grade() on rubrics whose sub-questions are all under the +1/-1, floor 0 rule
InitPenalty == InitGrade(PenaltyTemplates, MaxRun)

SpecPenalty == InitPenalty /\ [][Next]_vars

(***************************************************************************)
(* Properties of grade().                                                  *)
(***************************************************************************)
\* the k-th sub-question in grading order, and the grade given to it
SubQ(k) == SubQuestionsOf(rubric)[k]

GradedSoFar == 1..Len(question_grades)

\* the answers the submission holds for an id
AnswersFor(id) ==
    { submission.answers[k] : k \in { m \in 1..Len(submission.answers) :
                                         submission.answers[m].question_id = id } }

WasCompared(id) == \E k \in 1..Len(compare_log) : compare_log[k] = id

EarnedSum(grades) == SumSeq([k \in 1..Len(grades) |-> grades[k].points_earned])

\* C1: the GradeResult that grade returns has total_score equal to
\* max(0, base_points + the sum of points_earned over all its QuestionGrades),
\* with one QuestionGrade per sub-question of the key.
C1_AggregationInvariant ==
    pc = "done" =>
        LET raw == rubric.base_points + EarnedSum(result.question_grades)
        IN /\ Len(result.question_grades) = Len(SubQuestionsOf(rubric))
           /\ result.total_score = IF raw < 0 THEN 0 ELSE raw

\* C1 witness: a finished grading whose unclamped sum is negative, and one
\* point of base credit was at stake
C1_Witness ==
    /\ pc = "done"
    /\ rubric.base_points + EarnedSum(result.question_grades) < 0
    /\ rubric.base_points > 0
    /\ result.total_score = 0

\* C2: grade never divides by zero; percentage is 100 * total_score /
\* total_possible when the key's total_points > 0, and 0 when total_points is 0.
C2_PercentageGuarded ==
    /\ pc # "raised"
    /\ pc = "done" =>
          /\ result.total_possible = rubric.total_points
          /\ rubric.total_points > 0 =>
                /\ result.percentage.den > 0
                /\ result.percentage.num * rubric.total_points
                       = 100 * result.total_score * result.percentage.den
          /\ rubric.total_points = 0 => result.percentage = [num |-> 0, den |-> 1]

\* C2 witness: a key with zero questions and zero base points has been graded
C2_Witness ==
    /\ pc = "done"
    /\ rubric.questions = << >>
    /\ rubric.total_points = 0
    /\ result.percentage = [num |-> 0, den |-> 1]

\* C3: a sub-question whose id has no StudentAnswer in the submission, or
\* whose StudentAnswer has empty raw text, gets 0 points, is_correct = false
\* and the feedback "No answer provided.", whatever its rule and type.
C3_NoAnswerScoresZero ==
    pc \in {"grading", "done"} =>
        \A k \in GradedSoFar :
            (\A a \in AnswersFor(SubQ(k).id) : a.raw_text = << >>) =>
                /\ question_grades[k].question_id = SubQ(k).id
                /\ question_grades[k].points_earned = 0
                /\ ~question_grades[k].is_correct
                /\ question_grades[k].feedback.text = "No answer provided."

\* C3 witness: an unanswered sub-question under a per-item-penalty rule whose
\* floor is above 0 has been graded, and so has one with an empty raw text
C3_Witness ==
    /\ pc = "done"
    /\ \E k \in GradedSoFar :
          /\ AnswersFor(SubQ(k).id) = {}
          /\ SubQ(k).grading_rule.rule_type = "PER_ITEM_PENALTY"
          /\ SubQ(k).grading_rule.minimum_score > 0
          /\ question_grades[k].points_earned = 0
    /\ \E k \in GradedSoFar :
          /\ AnswersFor(SubQ(k).id) # {}
          /\ \A a \in AnswersFor(SubQ(k).id) : a.raw_text = << >>

\* C4: a StudentAnswer with non-empty raw text and extraction confidence
\* below 0.5 gets 0 points, is_correct = false and the manual-review
\* feedback, and the comparator is not invoked for it; with confidence
\* >= 0.5 the comparator is invoked.
C4_LowConfidenceNotCompared ==
    pc \in {"grading", "done"} =>
        \A k \in GradedSoFar :
            \A a \in AnswersFor(SubQ(k).id) :
                a.raw_text # << >> =>
                    /\ a.confidence < 50 =>
                          /\ question_grades[k].points_earned = 0
                          /\ ~question_grades[k].is_correct
                          /\ question_grades[k].feedback.text
                                = "Could not reliably extract answer. Flagged for manual review."
                          /\ ~WasCompared(SubQ(k).id)
                    /\ a.confidence >= 50 => WasCompared(SubQ(k).id)

\* C4 witness: a low-confidence answer equal to the solution went ungraded
\* and an answer exactly at the threshold was compared
C4_Witness ==
    /\ pc = "done"
    /\ \E k \in GradedSoFar : \E a \in AnswersFor(SubQ(k).id) :
          /\ a.confidence < 50
          /\ a.raw_text = SubQ(k).solution.value
          /\ ~WasCompared(SubQ(k).id)
    /\ \E k \in GradedSoFar : \E a \in AnswersFor(SubQ(k).id) :
          /\ a.confidence = 50
          /\ WasCompared(SubQ(k).id)

\* a sub-question was scored with low extraction confidence or with an
\* uncertain comparison
ScoredUncertainly(qg) ==
    qg.grading_notes \in {"Low confidence extraction", "Answer comparison uncertain"}

\* C5: the GradeResult has needs_review = true, with a reason recorded,
\* exactly when some sub-question was scored with low extraction confidence
\* or an uncertain comparison.  (Fails: grade never sets the flag.)
C5_NeedsReviewFlag ==
    pc = "done" =>
        LET flagged == \E k \in 1..Len(result.question_grades) :
                           ScoredUncertainly(result.question_grades[k])
        IN /\ result.needs_review = flagged
           /\ flagged => result.review_reasons # << >>

\* the points the claim prescribes for a verdict under a rule
PointsByRule(sq, ok) ==
    LET rule == sq.grading_rule
        floorAt(p) == IF rule.minimum_score > p THEN rule.minimum_score ELSE p
    IN CASE rule.rule_type = "PER_ITEM_PENALTY" ->
                IF ok THEN floorAt(rule.points_correct) ELSE floorAt(rule.points_incorrect)
         [] OTHER -> IF ok THEN sq.points ELSE 0

\* C6: for an answer that reached the comparator, points_earned depends only
\* on the verdict and the rule: all-or-nothing, partial-credit and any other
\* kind give the full points or 0; per-item penalty gives
\* max(minimum_score, points_correct) or max(minimum_score, points_incorrect).
C6_PointsByRule ==
    pc \in {"grading", "done"} =>
        \A k \in GradedSoFar :
            WasCompared(SubQ(k).id) =>
                question_grades[k].points_earned
                    = PointsByRule(SubQ(k), question_grades[k].is_correct)

\* C6 witness: an uncertain comparison under a per-item-penalty rule paid
\* the floor, and a correct answer under a floor above points_correct paid
\* the floor too
C6_Witness ==
    /\ pc = "done"
    /\ \E k \in GradedSoFar :
          /\ WasCompared(SubQ(k).id)
          /\ SubQ(k).grading_rule.rule_type = "PER_ITEM_PENALTY"
          /\ question_grades[k].grading_notes = "Answer comparison uncertain"
          /\ question_grades[k].points_earned = SubQ(k).grading_rule.minimum_score
    /\ \E k \in GradedSoFar :
          /\ WasCompared(SubQ(k).id)
          /\ question_grades[k].is_correct
          /\ question_grades[k].points_earned > SubQ(k).grading_rule.points_correct

\* C7: with every sub-question under a per-item-penalty rule with
\* points_incorrect = -1 and minimum_score = 0, the running total (base
\* points plus the points earned so far) is never below 0, at any step of
\* the loop.
C7_RunningTotalNeverNegative ==
    pc \in {"grading", "done"} =>
        /\ total_score >= 0
        /\ total_score = rubric.base_points + EarnedSum(question_grades)

\* C7 witness: still inside the loop, MaxRun wrong answers in a row were
\* compared and the total stands at the base points
C7_Witness ==
    /\ pc = "grading"
    /\ Len(question_grades) = MaxRun
    /\ \A k \in GradedSoFar :
          /\ WasCompared(SubQ(k).id)
          /\ ~question_grades[k].is_correct
          /\ SubQ(k).grading_rule.points_incorrect = -1
          /\ SubQ(k).grading_rule.minimum_score = 0
    /\ total_score = rubric.base_points

(***************************************************************************)
(* Properties of compare().                                                *)
(***************************************************************************)
IsBlank(s) == \A k \in 1..Len(s) : s[k] \in Whitespace

Returned(ok, conf) == cmp_out.is_correct = ok /\ cmp_out.confidence = conf

ManualTypes == {"SHORT_ANSWER", "PROOF", "GRAPHING"}

InForms(s, forms) == \E k \in 1..Len(forms) : Normalize(forms[k]) = Normalize(s)

\* C8 as claimed: compare(x, x, T, []) is (true, 1.0) for every string x,
\* the empty and the whitespace-only ones included.  (Fails on those.)
C8_ReflexiveForEveryString ==
    (pc = "compared" /\ cmp_in.student_answer = cmp_in.correct_answer
                     /\ cmp_in.equivalent_forms = << >>)
        => Returned(TRUE, 100)

\* C8 amended: compare(x, x, T, []) is (true, 1.0) for every answer type T
\* and every x that holds a non-whitespace character.
C8_ReflexiveForNonBlank ==
    (pc = "compared" /\ cmp_in.student_answer = cmp_in.correct_answer
                     /\ cmp_in.equivalent_forms = << >>
                     /\ ~IsBlank(cmp_in.student_answer))
        => Returned(TRUE, 100) /\ cmp_out.called = "none"

\* C8 witness: a proof answer compared with itself
C8_Witness ==
    /\ pc = "compared"
    /\ cmp_in.student_answer = cmp_in.correct_answer
    /\ cmp_in.equivalent_forms = << >>
    /\ ~IsBlank(cmp_in.student_answer)
    /\ cmp_in.question_type = "PROOF"
    /\ Returned(TRUE, 100)

\* C9 as claimed: for free response, proof and graphing, compare returns
\* (false, 0.3) for every student string, correct string and forms list.
\* (Fails: the type-independent checks come first.)
C9_ManualTypesAlwaysUncertain ==
    (pc = "compared" /\ cmp_in.question_type \in ManualTypes)
        => Returned(FALSE, 30)

\* C9 amended: for free response, proof and graphing, compare returns
\* (false, 0.3) whenever the normalized student text is non-empty, differs
\* from the normalized correct answer and is not among the normalized
\* equivalent forms; it is (false, 1.0) on an empty student text and
\* (true, 1.0) on a match.
C9_ManualTypesUncertainUnlessMatched ==
    (pc = "compared" /\ cmp_in.question_type \in ManualTypes) =>
        IF IsBlank(cmp_in.student_answer) THEN Returned(FALSE, 100)
        ELSE IF \/ Normalize(cmp_in.student_answer) = Normalize(cmp_in.correct_answer)
                \/ InForms(cmp_in.student_answer, cmp_in.equivalent_forms)
             THEN Returned(TRUE, 100)
             ELSE Returned(FALSE, 30)

\* C9 witness: a graphing answer that matches nothing got (false, 0.3)
C9_Witness ==
    /\ pc = "compared"
    /\ cmp_in.question_type = "GRAPHING"
    /\ ~IsBlank(cmp_in.student_answer)
    /\ Normalize(cmp_in.student_answer) # Normalize(cmp_in.correct_answer)
    /\ cmp_in.equivalent_forms # << >>
    /\ ~InForms(cmp_in.student_answer, cmp_in.equivalent_forms)
    /\ Returned(FALSE, 30)

\* the type-specific method of an answer type
MethodOf(question_type) ==
    CASE question_type = "TRUE_FALSE" -> "_compare_boolean"
      [] question_type = "NUMERIC" -> "_compare_numeric"
      [] question_type = "PROBABILITY" -> "_compare_probability"
      [] question_type = "BIG_O" -> "_compare_big_o"
      [] question_type = "MULTIPLE_CHOICE" -> "_compare_multiple_choice"
      [] OTHER -> "none"

\* C10: for every answer type compare first returns (false, 1.0) on an empty
\* normalized student text, then (true, 1.0) on normalized equality with the
\* correct answer, then (true, 1.0) on membership in the normalized
\* equivalent forms; the type-specific comparison is used only when none of
\* the three applies, and then it is used.
C10_TypeIndependentChecksFirst ==
    pc = "compared" =>
        IF IsBlank(cmp_in.student_answer)
        THEN Returned(FALSE, 100) /\ cmp_out.called = "none"
        ELSE IF Normalize(cmp_in.student_answer) = Normalize(cmp_in.correct_answer)
        THEN Returned(TRUE, 100) /\ cmp_out.called = "none"
        ELSE IF InForms(cmp_in.student_answer, cmp_in.equivalent_forms)
        THEN Returned(TRUE, 100) /\ cmp_out.called = "none"
        ELSE /\ cmp_out.called = MethodOf(cmp_in.question_type)
             /\ cmp_in.question_type \in ManualTypes => Returned(FALSE, 30)

\* C10 witness: a whitespace-only student text against an empty correct
\* answer and an empty equivalent form was rejected with certainty
C10_Witness ==
    /\ pc = "compared"
    /\ cmp_in.student_answer # << >>
    /\ IsBlank(cmp_in.student_answer)
    /\ cmp_in.correct_answer = << >>
    /\ cmp_in.equivalent_forms = << << >> >>
    /\ Returned(FALSE, 100)

(***************************************************************************)
(* SymPy on arithmetic text.  For a string made of decimal literals joined *)
(* by `/` and `%`, parse_expr evaluates it as Python does (same            *)
(* precedence, left to right) over exact numbers; what SymPy makes of any  *)
(* other string stays an environment choice.                               *)
(***************************************************************************)
DigitValue ==
    [c \in {"0", "1", "2", "3", "4", "5", "6", "7", "8", "9"} |->
        CASE c = "0" -> 0 [] c = "1" -> 1 [] c = "2" -> 2 [] c = "3" -> 3
          [] c = "4" -> 4 [] c = "5" -> 5 [] c = "6" -> 6 [] c = "7" -> 7
          [] c = "8" -> 8 [] c = "9" -> 9]

ArithOps == {"/", "%"}

RECURSIVE DigitsToNat(_)
DigitsToNat(s) ==
    IF s = << >> THEN 0
    ELSE 10 * DigitsToNat(SubSeq(s, 1, Len(s) - 1)) + DigitValue[s[Len(s)]]

RECURSIVE Pow10(_)
Pow10(k) == IF k = 0 THEN 1 ELSE 10 * Pow10(k - 1)

\* the values parse_expr can give: a number num/den (is_float: written with
\* a decimal point, a SymPy Float), zoo (a division by zero), a free symbol,
\* SyntaxError (parse_expr raises), Unknown (text outside the arithmetic
\* grammar)
Number(num, den, is_float) ==
    LET g == Gcd(Abs(num), den)
    IN [kind |-> "number", num |-> num \div g, den |-> den \div g, is_float |-> is_float]

Zoo == [kind |-> "zoo"]

FreeSymbol == [kind |-> "symbol"]

SyntaxError == [kind |-> "SyntaxError"]

Unknown == [kind |-> "Unknown"]

\* a decimal literal: digits with at most one '.', at least one digit
Literal(s) ==
    LET dots   == { k \in 1..Len(s) : s[k] = "." }
        IsNum(c) == c \in DOMAIN DigitValue
        digits == SelectSeq(s, IsNum)
    IN IF s = <<"x">> THEN FreeSymbol
       ELSE IF \E k \in 1..Len(s) : s[k] \notin DOMAIN DigitValue \cup {"."} THEN Unknown
       ELSE IF Cardinality(dots) > 1 THEN Unknown
       ELSE IF dots = {} /\ Len(s) > 1 /\ s[1] = "0" THEN Unknown
       ELSE IF digits = << >> THEN SyntaxError
       ELSE IF dots = {} THEN Number(DigitsToNat(digits), 1, FALSE)
       ELSE LET d == CHOOSE k \in dots : TRUE
            IN Number(DigitsToNat(digits), Pow10(Len(s) - d), TRUE)

\* a / b and a % b (Mod) on SymPy numbers; Mod(a, 0) raises ZeroDivisionError
ApplyOp(op, a, b) ==
    IF {a.kind, b.kind} \cap {"Unknown", "symbol"} # {} THEN Unknown
    ELSE IF a.kind = "SyntaxError" \/ b.kind = "SyntaxError" THEN SyntaxError
    ELSE IF a.kind = "zoo" \/ b.kind = "zoo" THEN Zoo
    ELSE IF b.num = 0 THEN (IF op = "/" THEN Zoo ELSE SyntaxError)
    ELSE IF op = "/"
         THEN Number(a.num * b.den, a.den * b.num, a.is_float \/ b.is_float)
         ELSE LET q == (a.num * b.den) \div (a.den * b.num)
              IN Number(a.num * b.den - q * a.den * b.num, a.den * b.den,
                        a.is_float \/ b.is_float)

\* parse_expr(expr, transformations=TRANSFORMATIONS)
RECURSIVE ParseExpr(_)
ParseExpr(expr) ==
    LET ops == { k \in 1..Len(expr) : expr[k] \in ArithOps }
    IN IF ops = {} THEN Literal(expr)
       ELSE LET k == CHOOSE x \in ops : \A y \in ops : y <= x
            IN IF k > 1 /\ expr[k - 1] \in ArithOps THEN Unknown
               ELSE ApplyOp(expr[k], ParseExpr(SubSeq(expr, 1, k - 1)),
                            Literal(SubSeq(expr, k + 1, Len(expr))))

\* 1 / FLOAT_TOLERANCE
FLOAT_TOLERANCE_INV == 1000000

\* abs(scale * float(a) - float(b)) < FLOAT_TOLERANCE
WithinTolerance(a, b, scale) ==
    Abs(scale * a.num * b.den - b.num * a.den)
        <= (a.den * b.den - 1) \div FLOAT_TOLERANCE_INV

\* o, the outcomes of the SymPy calls of _compare_numeric and of the x100
\* branch of _compare_probability, agrees with SymPy on the strings s and c;
\* a call that is not reached keeps its SympyDefault value
AgreesOnNumbers(o, s, c, with_percent) ==
    LET vs == ParseExpr(Replace(s, <<"^">>, <<"*", "*">>))
        vc == ParseExpr(Replace(c, <<"^">>, <<"*", "*">>))
        ParseAgrees(parsed, expr, v) ==
            CASE expr = << >> -> parsed
              [] v.kind \in {"number", "zoo", "symbol"} -> parsed
              [] v.kind = "SyntaxError" -> ~parsed
              [] OTHER -> TRUE
        parsed == /\ ParseMath(s, o.parse_student) # None
                  /\ ParseMath(c, o.parse_correct) # None
        both   == vs.kind = "number" /\ vc.kind = "number"
        known  == vs.kind # "Unknown" /\ vc.kind # "Unknown"
        equal  == both /\ vs.num = vc.num /\ vs.den = vc.den
    IN /\ ParseAgrees(o.parse_student, s, vs)
       /\ ParseAgrees(o.parse_correct, c, vc)
       /\ IF ~parsed THEN o.simplify = "nonzero" /\ o.evalf = "far"
          ELSE /\ known =>
                    \/ o.simplify = "zero" /\ equal
                    \/ o.simplify = "nonzero"
                         /\ (equal => vs.is_float \/ vc.is_float)
                         /\ o.evalf = IF ~both THEN "raises"
                                      ELSE IF WithinTolerance(vs, vc, 1) THEN "close"
                                      ELSE "far"
       /\ IF ~(with_percent /\ parsed) THEN o.percent = "far"
          ELSE known => o.percent = IF ~both THEN "raises"
                                    ELSE IF WithinTolerance(vs, vc, 100) THEN "close"
                                    ELSE "far"

\* parse_expr raises on text with unbalanced parentheses or a dangling operator
RECURSIVE Depths(_, _)
Depths(s, d) ==
    IF s = << >> THEN << d >>
    ELSE << d >> \o Depths(Tail(s), d + (IF Head(s) = "(" THEN 1
                                         ELSE IF Head(s) = ")" THEN -1 ELSE 0))

Unparseable(s) ==
    \/ s = << >>
    \/ \E k \in 1..(Len(s) + 1) : Depths(s, 0)[k] < 0
    \/ Depths(s, 0)[Len(s) + 1] # 0
    \/ s[Len(s)] \in {"*", "^", "/", "+", "-", "("}

\* growth-rate expressions that SymPy parses and tells apart: n, n**2, logn
BigOTerms == { <<"n">>, <<"n", "*", "*", "2">>, <<"l", "o", "g", "n">> }

\* the outcomes of the SymPy calls of one compare(student_answer,
\* correct_answer, question_type): those of SympyOutcomes that agree with
\* what SymPy computes on the text
SympyOn(student_answer, correct_answer, question_type) ==
    LET student == Normalize(student_answer)
        correct == Normalize(correct_answer)
    IN CASE question_type = "NUMERIC" ->
              { o \in SympyOutcomes("NUMERIC") :
                    o.percent = "far" /\ AgreesOnNumbers(o, student, correct, FALSE) }
         [] question_type = "PROBABILITY" ->
              LET s == RStripChars(student, {"%"})
                  c == RStripChars(correct, {"%"})
              IN { o \in SympyOutcomes("PROBABILITY") :
                     AgreesOnNumbers(o, s, c, Contains(c, "%")) }
         [] question_type = "BIG_O" ->
              LET s == NormalizeBigO(ExtractBigO(student))
                  c == NormalizeBigO(ExtractBigO(correct))
              IN { o \in SympyOutcomes("BIG_O") :
                     IF ExtractBigO(student) = << >> \/ ExtractBigO(correct) = << >> \/ s = c
                     THEN o.big_o = "nonzero"
                     ELSE IF Unparseable(s) \/ Unparseable(c) THEN o.big_o = "raises"
                     ELSE ({s, c} \subseteq BigOTerms) => o.big_o = "nonzero" }
         [] OTHER -> { SympyDefault }

(***************************************************************************)
(* The comparator on answers as students and keys write them: one          *)
(* compare() call on texts drawn from the pools below, with the SymPy      *)
(* outcomes that belong to the texts.                                      *)
(***************************************************************************)
\* "0.25", ".25", "25%", "25", "1/4", "0.5", "50%", "1/", "1/0", "x"
NumberTexts ==
    { <<"0", ".", "2", "5">>, <<".", "2", "5">>, <<"2", "5", "%">>, <<"2", "5">>,
      <<"1", "/", "4">>, <<"0", ".", "5">>, <<"5", "0", "%">>,
      <<"1", "/">>, <<"1", "/", "0">>, <<"x">> }

\* "O(n^2)", "n**2", "O(log(n))", "O(log n)", "log(n)", "log n", "n",
\* "O( n )", "O(n", "n^"
BigOTexts ==
    { <<"O", "(", "n", "^", "2", ")">>, <<"n", "*", "*", "2">>,
      <<"O", "(", "l", "o", "g", "(", "n", ")", ")">>,
      <<"O", "(", "l", "o", "g", " ", "n", ")">>,
      <<"l", "o", "g", "(", "n", ")">>, <<"l", "o", "g", " ", "n">>,
      <<"n">>, <<"O", "(", " ", "n", " ", ")">>, <<"O", "(", "n">>, <<"n", "^">> }

\* "T", "true", "f", "maybe"
BooleanTexts ==
    { <<"T">>, <<"t", "r", "u", "e">>, <<"f">>, <<"m", "a", "y", "b", "e">> }

AutoGradedTypes == {"TRUE_FALSE", "NUMERIC", "PROBABILITY", "BIG_O"}

TextsOf(question_type) ==
    CASE question_type = "TRUE_FALSE" -> BooleanTexts
      [] question_type = "BIG_O" -> BigOTexts
      [] OTHER -> NumberTexts

InitAnswers ==
    /\ \E question_type \in AutoGradedTypes :
          \E student_answer \in TextsOf(question_type),
             correct_answer \in TextsOf(question_type) :
             \E sym \in SympyOn(student_answer, correct_answer, question_type) :
                cmp_in = [student_answer |-> student_answer,
                          correct_answer |-> correct_answer,
                          question_type |-> question_type,
                          equivalent_forms |-> << >>,
                          sym |-> sym]
    /\ cmp_out = NoCall
    /\ rubric = NoResult
    /\ submission = NoResult
    /\ pc = "compare"
    /\ i = 0
    /\ question_grades = << >>
    /\ total_score = 0
    /\ compare_log = << >>
    /\ result = NoResult
    /\ ParsersIdle

\* compare(), with SymPy answering as cmp_in.sym says
CompareAnswers ==
    /\ pc = "compare"
    /\ pc' = "compared"
    /\ cmp_out' = Compare(cmp_in.student_answer, cmp_in.correct_answer,
                          cmp_in.question_type, cmp_in.equivalent_forms, cmp_in.sym)
    /\ UNCHANGED << cmp_in, gradeVarsButPc, parserVars >>

NextAnswers == CompareAnswers

SpecAnswers == InitAnswers /\ [][NextAnswers]_vars

(***************************************************************************)
(* Properties of compare() on written answers.                             *)
(***************************************************************************)
\* the student and correct texts as the type-specific methods receive them
StudentText == Normalize(cmp_in.student_answer)

CorrectText == Normalize(cmp_in.correct_answer)

\* C11: for the probability type, when the correct answer carries a trailing
\* '%' the student's numeric value times 100 is compared with the correct
\* numeric value and a match returns (true, 0.95), as for "0.25" against
\* "25%"; when the correct answer has no '%' suffix the result is that of
\* the numeric path on the '%'-stripped strings.  (Fails: the suffix is
\* stripped before it is looked for.)
C11_PercentSuffixScalesStudent ==
    (pc = "compared" /\ cmp_in.question_type = "PROBABILITY"
                     /\ cmp_out.called = "_compare_probability") =>
        LET s  == RStripChars(StudentText, {"%"})
            c  == RStripChars(CorrectText, {"%"})
            vs == ParseExpr(s)
            vc == ParseExpr(c)
            numeric == CompareNumeric(s, c, cmp_in.sym)
        IN IF c # CorrectText
           THEN (vs.kind = "number" /\ vc.kind = "number" /\ WithinTolerance(vs, vc, 100))
                    => Returned(TRUE, 95)
           ELSE Returned(numeric.is_correct, numeric.confidence)

\* the inner expression of a growth-rate answer in the form the claim
\* compares: without an O(...)/o(...) wrapper around the whole text, without
\* spaces, '^' written '**', 'log(n)' written 'logn'
BigOCanonical(text) ==
    LET t == Normalize(text)
        n == Len(t)
        wrapped == /\ n >= 3
                   /\ t[1] = "o"
                   /\ t[n] = ")"
                   /\ LStrip(SubSeq(t, 2, n)) # << >>
                   /\ Head(LStrip(SubSeq(t, 2, n))) = "("
        inner == IF wrapped THEN Tail(LStrip(SubSeq(t, 2, n - 1))) ELSE t
        e1 == Replace(inner, <<" ">>, << >>)
        e2 == Replace(e1, <<"^">>, <<"*", "*">>)
    IN Replace(e2, <<"l", "o", "g", "(", "n", ")">>, <<"l", "o", "g", "n">>)

\* C12: for the growth-rate type, two answers whose inner expressions differ
\* only by an O(...)/o(...) wrapper, by spaces, by '^' versus '**' or by
\* 'log(n)' versus 'log n' compare as equivalent with confidence >= 0.95.
\* (Fails on a wrapper around an expression that has parentheses of its own.)
C12_BigONormalization ==
    (pc = "compared" /\ cmp_in.question_type = "BIG_O"
                     /\ BigOCanonical(cmp_in.student_answer)
                            = BigOCanonical(cmp_in.correct_answer))
        => cmp_out.is_correct /\ cmp_out.confidence >= 95

\* the comparator could not parse the student text or the solution text
ParseFailed ==
    LET sym == cmp_in.sym
        s == IF cmp_in.question_type = "PROBABILITY"
             THEN RStripChars(StudentText, {"%"}) ELSE StudentText
        c == IF cmp_in.question_type = "PROBABILITY"
             THEN RStripChars(CorrectText, {"%"}) ELSE CorrectText
    IN CASE cmp_in.question_type = "TRUE_FALSE" ->
              \/ s \notin true_values \cup false_values
              \/ c \notin true_values \cup false_values
         [] cmp_in.question_type \in {"NUMERIC", "PROBABILITY"} ->
              \/ ParseMath(s, sym.parse_student) = None
              \/ ParseMath(c, sym.parse_correct) = None
              \/ sym.simplify = "raises"
         [] cmp_in.question_type = "BIG_O" ->
              \/ ExtractBigO(s) = << >>
              \/ ExtractBigO(c) = << >>
              \/ /\ NormalizeBigO(ExtractBigO(s)) # NormalizeBigO(ExtractBigO(c))
                 /\ sym.big_o = "raises"
         [] OTHER -> FALSE

\* C13: for the boolean, numeric, probability and growth-rate types, whenever
\* the student text or the solution text cannot be parsed (unmappable
\* boolean, expression parse failure, exception during the symbolic
\* comparison), compare returns is_correct = false with confidence <= 0.5.
\* (Fails for the growth-rate type, which answers 0.8.)
C13_ParseFailureIsUncertain ==
    (pc = "compared" /\ cmp_in.question_type \in AutoGradedTypes
                     /\ cmp_out.called # "none" /\ ParseFailed)
        => ~cmp_out.is_correct /\ cmp_out.confidence <= 50

(***************************************************************************)
(* Python's re module.  A pattern is the sequence of its items; Match is   *)
(* the backtracking matcher: at an item with several ways to go on it      *)
(* takes the first, in re's order (greedy: longest first; lazy: shortest   *)
(* first; `|`: left first), for which the rest of the pattern succeeds.    *)
(***************************************************************************)
Digit == {"0", "1", "2", "3", "4", "5", "6", "7", "8", "9"}

LowerLetter == {"a", "b", "c", "d", "e", "f", "g", "h", "i", "j", "k", "l", "m",
                "n", "o", "p", "q", "r", "s", "t", "u", "v", "w", "x", "y", "z"}

WordChar == LowerLetter \cup UpperLetter \cup Digit \cup {"_"}

LowerChar(c) == IF c \in UpperLetter THEN UpperToLower[c] ELSE c

\* [set]{min,max}, max = -1 for no upper limit; ignore_case: re.IGNORECASE
\* for a set given in lower case
Rep(set, min, max, greedy, ignore_case) ==
    << [op |-> "rep", set |-> set, min |-> min, max |-> max, greedy |-> greedy,
        ignore_case |-> ignore_case] >>

Chr(set) == Rep(set, 1, 1, TRUE, FALSE)

ChrI(set) == Rep(set, 1, 1, TRUE, TRUE)

Opt(set) == Rep(set, 0, 1, TRUE, FALSE)

OptI(set) == Rep(set, 0, 1, TRUE, TRUE)

Star(set) == Rep(set, 0, -1, TRUE, FALSE)

Plus(set) == Rep(set, 1, -1, TRUE, FALSE)

\* `.` is every character under re.DOTALL and every one but "\n" without it;
\* the matcher reads the set {} with `negated` as "all but these"
LazyPlusDot(dotall) ==
    << [op |-> "rep", set |-> IF dotall THEN {} ELSE {"\n"}, min |-> 1, max |-> -1,
        greedy |-> FALSE, ignore_case |-> FALSE, negated |-> TRUE] >>

\* a literal word, and the same under re.IGNORECASE (w in lower case)
Word(w) == << [op |-> "word", w |-> w, ignore_case |-> FALSE] >>

WordI(w) == << [op |-> "word", w |-> w, ignore_case |-> TRUE] >>

\* p1|p2|..., and (?:p)?
Alt(patterns) == << [op |-> "alt", items |-> patterns] >>

OptP(p) == Alt(<< p, << >> >>)

\* (p) as capture group k, (?=p), (?<=[set]), ^, $, \b
Grp(k, p) == << [op |-> "open", k |-> k] >> \o p \o << [op |-> "close", k |-> k] >>

Ahead(p) == << [op |-> "ahead", p |-> p] >>

Behind(set) == << [op |-> "behind", set |-> set] >>

Bol == << [op |-> "bol"] >>

Eol(multiline) == << [op |-> "eol", multiline |-> multiline] >>

WordBoundary == << [op |-> "wordb"] >>

\* The one element of a one-element set.  The({ e(x) : x \in {v} }) is e(v)
\* with v worked out once, however often e uses it.
The(S) == CHOOSE x \in S : TRUE

Least(S) == CHOOSE x \in S : \A y \in S : x <= y

Greatest(S) == CHOOSE x \in S : \A y \in S : x >= y

\* the numbers of characters from pos on that the repetition r can take
Runs(s, r, pos) ==
    { k \in r.min..(IF r.max < 0 THEN Len(s) ELSE r.max) :
        /\ pos + k - 1 <= Len(s)
        /\ \A j \in pos..(pos + k - 1) :
              IF "negated" \in DOMAIN r THEN s[j] \notin r.set
              ELSE s[j] \in r.set \/ (r.ignore_case /\ LowerChar(s[j]) \in r.set) }

\* the word r.w stands at pos
WordAt(s, r, pos) ==
    /\ pos + Len(r.w) - 1 <= Len(s)
    /\ (IF r.ignore_case THEN Lower(SubSeq(s, pos, pos + Len(r.w) - 1))
        ELSE SubSeq(s, pos, pos + Len(r.w) - 1)) = r.w

\* the zero-width item r holds at pos
Holds(s, r, pos) ==
    CASE r.op = "behind" -> pos > 1 /\ s[pos - 1] \in r.set
      [] r.op = "bol" -> pos = 1
      [] r.op = "eol" -> \/ pos = Len(s) + 1
                         \/ pos = Len(s) /\ s[pos] = "\n"
                         \/ r.multiline /\ pos <= Len(s) /\ s[pos] = "\n"
      [] r.op = "wordb" -> (pos > 1 /\ s[pos - 1] \in WordChar)
                           # (pos <= Len(s) /\ s[pos] \in WordChar)
      [] OTHER -> TRUE

\* the items of pat from idx on after item idx took its alternative items
Continue(items, pat, idx) == items \o SubSeq(pat, idx + 1, Len(pat))

\* the items of pat from idx on match s from pos on
RECURSIVE Matches(_, _, _, _)
Matches(s, pat, idx, pos) ==
    \/ idx > Len(pat)
    \/ /\ idx <= Len(pat)
       /\ CASE pat[idx].op = "rep" ->
                 \E k \in Runs(s, pat[idx], pos) : Matches(s, pat, idx + 1, pos + k)
            [] pat[idx].op = "word" ->
                 WordAt(s, pat[idx], pos) /\ Matches(s, pat, idx + 1, pos + Len(pat[idx].w))
            [] pat[idx].op = "alt" ->
                 \E k \in 1..Len(pat[idx].items) :
                     Matches(s, Continue(pat[idx].items[k], pat, idx), 1, pos)
            [] pat[idx].op = "ahead" ->
                 Matches(s, pat[idx].p, 1, pos) /\ Matches(s, pat, idx + 1, pos)
            [] OTHER -> Holds(s, pat[idx], pos) /\ Matches(s, pat, idx + 1, pos)

\* the capture groups of a match: <<start, end>> (end exclusive) per group,
\* <<0, 0>> for a group that took no part (group(k) is None)
NoGroups == [k \in 1..3 |-> << 0, 0 >>]

\* The match of the items of pat from idx on, from pos on, given that they
\* match: where it ends and what its groups hold.  A repetition takes the
\* first count, in its order, with which the rest matches; an alternation
\* its first alternative with which the rest matches.
RECURSIVE Match(_, _, _, _, _)
Match(s, pat, idx, pos, caps) ==
    IF idx > Len(pat) THEN [end |-> pos, caps |-> caps]
    ELSE CASE pat[idx].op = "rep" ->
                The({ Match(s, pat, idx + 1,
                            pos + (IF pat[idx].greedy THEN Greatest(good) ELSE Least(good)),
                            caps) :
                      good \in { { k \in Runs(s, pat[idx], pos) :
                                     Matches(s, pat, idx + 1, pos + k) } } })
           [] pat[idx].op = "word" -> Match(s, pat, idx + 1, pos + Len(pat[idx].w), caps)
           [] pat[idx].op = "alt" ->
                The({ Match(s, Continue(pat[idx].items[Least(good)], pat, idx), 1, pos, caps) :
                      good \in { { k \in 1..Len(pat[idx].items) :
                                     Matches(s, Continue(pat[idx].items[k], pat, idx), 1, pos) } } })
           [] pat[idx].op = "open" ->
                Match(s, pat, idx + 1, pos, [caps EXCEPT ![pat[idx].k] = << pos, 0 >>])
           [] pat[idx].op = "close" ->
                Match(s, pat, idx + 1, pos, [caps EXCEPT ![pat[idx].k] = << @[1], pos >>])
           [] OTHER -> Match(s, pat, idx + 1, pos, caps)

\* every match of pattern in s by the position it starts at, as records
\* [start, end, caps]
MatchesIn(pattern, s) ==
    { [start |-> p] @@ Match(s, pattern, 1, p, NoGroups) :
      p \in { q \in 1..(Len(s) + 1) : Matches(s, pattern, 1, q) } }

NoMatch == [ok |-> FALSE]

\* the leftmost of the matches that starts at `from` or later
Leftmost(found, from) ==
    LET later == { m \in found : m.start >= from }
    IN IF later = {} THEN NoMatch
       ELSE [ok |-> TRUE] @@ (CHOOSE m \in later : \A u \in later : m.start <= u.start)

\* re.search(pattern, s)
Search(pattern, s) == The({ Leftmost(found, 1) : found \in { MatchesIn(pattern, s) } })

\* list(re.finditer(pattern, s)): the successive non-overlapping matches
\* (no pattern of the program matches the empty string)
RECURSIVE Successive(_, _)
Successive(found, from) ==
    IF Leftmost(found, from).ok
    THEN << Leftmost(found, from) >> \o Successive(found, Leftmost(found, from).end)
    ELSE << >>

FindIter(pattern, s) == The({ Successive(found, 1) : found \in { MatchesIn(pattern, s) } })

\* match.group(k), with << >> for None
Group(s, m, k) ==
    IF m.caps[k] = << 0, 0 >> THEN << >> ELSE SubSeq(s, m.caps[k][1], m.caps[k][2] - 1)

\* str.split('\n')[0]
FirstLine(s) ==
    LET nl == { k \in 1..Len(s) : s[k] = "\n" }
    IN IF nl = {} THEN s
       ELSE SubSeq(s, 1, (CHOOSE k \in nl : \A m \in nl : k <= m) - 1)

\* sub in s
HasSub(s, sub) == \E k \in 1..(Len(s) - Len(sub) + 1) : SubSeq(s, k, k + Len(sub) - 1) = sub

(***************************************************************************)
(* parsers/submission_parser.py: SubmissionParser.                         *)
(* Confidences are in hundredths, as everywhere in this module.            *)
(***************************************************************************)
\* _extract_student_id: the four filename patterns, tried in order
StudentIdPatterns ==
    << WordI(<< "s", "t", "u", "d", "e", "n", "t" >>) \o Opt({"_", "-"})
         \o Grp(1, Plus(WordChar)),
       WordI(<< "s", "u", "b", "m", "i", "s", "s", "i", "o", "n" >>) \o Opt({"_", "-"})
         \o Grp(1, Plus(WordChar)),
       Grp(1, Rep(Digit, 3, -1, TRUE, FALSE)),
       Chr({"_", "-"}) \o Grp(1, Plus(WordChar)) \o Eol(FALSE) >>

RECURSIVE FirstGroupOf(_, _)
FirstGroupOf(patterns, filename) ==
    IF patterns = << >> THEN filename
    ELSE The({ IF m.ok THEN Group(filename, m, 1) ELSE FirstGroupOf(Tail(patterns), filename) :
               m \in { Search(Head(patterns), filename) } })

ExtractStudentId(filename) == FirstGroupOf(StudentIdPatterns, filename)

\* _get_expected_questions
GetExpectedQuestions(r) == [k \in 1..Len(SubQuestionsOf(r)) |-> SubQuestionsOf(r)[k].id]

\* _find_answer_blocks: what follows the question number in a marker,
\* \s*[.\-]?\s*, then the letter, then (?:\)|\.|\:)?
MarkerTail(letter) ==
    Star(Whitespace) \o Opt({".", "-"}) \o Star(Whitespace) \o letter \o Opt({")", ".", ":"})

\* _find_answer_blocks: pattern, under re.IGNORECASE | re.DOTALL
AnswerPattern ==
    Alt(<< Bol, Chr({"\n"}) >>) \o Star(Whitespace) \o Opt({"("}) \o Grp(1, Plus(Digit))
      \o MarkerTail(OptP(Grp(2, ChrI(LowerLetter))))
      \o Star(Whitespace) \o Grp(3, LazyPlusDot(TRUE))
      \o Ahead(Alt(<< Chr({"\n"}) \o Star(Whitespace) \o Opt({"("}) \o Plus(Digit)
                        \o MarkerTail(OptI(LowerLetter)),
                      Eol(FALSE) >>))

\* _calculate_confidence
CalculateConfidence(text) ==
    IF text = << >> THEN 0
    ELSE LET newlines == Cardinality({ k \in 1..Len(text) : text[k] = "\n" })
             confidence == 100 - (IF Len(text) > 200 THEN 20 ELSE 0)
                               - (IF Contains(text, "?") THEN 30 ELSE 0)
                               - (IF newlines > 2 THEN 20 ELSE 0)
                               - (IF Len(text) < 2 THEN 30 ELSE 0)
         IN Max(0, IF confidence < 100 THEN confidence ELSE 100)

\* _clean_answer: prefixes, in the order the loop visits them
Prefixes ==
    << << "a", "n", "s", "w", "e", "r", ":" >>, << "a", "n", "s", ":" >>,
       << "s", "o", "l", "u", "t", "i", "o", "n", ":" >>, << "=" >> >>

RECURSIVE RemovePrefixes(_, _)
RemovePrefixes(text, prefixes) ==
    IF prefixes = << >> THEN text
    ELSE RemovePrefixes(IF StartsWith(Lower(text), Head(prefixes))
                        THEN Strip(SubSeq(text, Len(Head(prefixes)) + 1, Len(text)))
                        ELSE text,
                        Tail(prefixes))

\* _clean_answer
CleanAnswer(raw_text) ==
    IF raw_text = << >> THEN << >>
    ELSE RStripChars(RemovePrefixes(Strip(raw_text), Prefixes), {".", ",", ";", ":"})

\* _find_answer_blocks: the entry of one match
AnswerBlock(text, match) ==
    The({ [q_id |-> Lower(Group(text, match, 1) \o Group(text, match, 2)),
           raw_text |-> Strip(FirstLine(payload)),
           confidence |-> CalculateConfidence(payload)] :
          payload \in { Strip(Group(text, match, 3)) } })

\* _find_answer_blocks: one entry per match, in match order; in the dict a
\* later entry replaces an earlier one with the same q_id
FindAnswerBlocks(text) ==
    The({ [k \in 1..Len(matches) |-> AnswerBlock(text, matches[k])] :
          matches \in { FindIter(AnswerPattern, text) } })

\* found_answers[q_id], << >> when q_id is not a key of the dict
FoundAnswer(blocks, q_id) ==
    LET hits == { k \in 1..Len(blocks) : blocks[k].q_id = q_id }
    IN IF hits = {} THEN << >>
       ELSE << blocks[CHOOSE k \in hits : \A m \in hits : m <= k] >>

\* _extract_answers: the record for q_id, << >> for none
AnswerFor(blocks, q_id, placeholder) ==
    The({ IF found # << >>
          THEN << StudentAnswer(q_id, found[1].raw_text,
                                CleanAnswer(found[1].raw_text), found[1].confidence) >>
          ELSE IF placeholder THEN << StudentAnswer(q_id, << >>, << >>, 0) >>
          ELSE << >> :
          found \in { FoundAnswer(blocks, q_id) } })

\* _extract_answers that skips the questions it found no marker for
ExtractAnswers_NoPlaceholder(text, expected_questions) ==
    The({ Flatten([k \in 1..Len(expected_questions) |->
                      AnswerFor(blocks, expected_questions[k], FALSE)]) :
          blocks \in { FindAnswerBlocks(text) } })

\* _extract_answers
ExtractAnswers(text, expected_questions) ==
    The({ Flatten([k \in 1..Len(expected_questions) |->
                      AnswerFor(blocks, expected_questions[k], TRUE)]) :
          blocks \in { FindAnswerBlocks(text) } })

\* Submission, with the file_path that parse() records
Submission(student_id, assignment_id, file_path, answers) ==
    [student_id |-> student_id, assignment_id |-> assignment_id,
     file_path |-> file_path, answers |-> answers]

\* an exception leaving parse()
Raised(exception) == [raised |-> exception]

\* parse(pdf_path, rubric): the Submission, or the exception it raises.
\* doc is what the path leads to: its stem, whether the file exists, whether
\* fitz.open succeeds, and the text of its pages.
Parse(doc, r) ==
    IF ~doc.exists THEN Raised("FileNotFoundError")
    ELSE IF ~doc.opens THEN Raised("FileDataError")
    ELSE The({ IF student_id = << >> THEN Raised("ValidationError")
               ELSE Submission(student_id, r.assignment_id, doc.name,
                               ExtractAnswers(doc.text, GetExpectedQuestions(r))) :
               student_id \in { Strip(ExtractStudentId(doc.name)) } })

(***************************************************************************)
(* parse_batch(pdf_dir, rubric): one step per document of the directory.   *)
(***************************************************************************)
MaxFiles == 2

\* The documents a directory may hold
Documents ==
    {
      \* every expected marker, in key order
      [name |-> << "s", "t", "u", "d", "e", "n", "t", "_", "0", "0", "1" >>, exists |-> TRUE, opens |-> TRUE,
       text |-> << "1", "a", ")", " ", "T", "r", "u", "e", "\n", "1", "b", ")", " ", "F", "\n", "2", ".", " ", "4", "2" >>],
      \* one expected marker and one the key does not have
      [name |-> << "s", "_", "7" >>, exists |-> TRUE, opens |-> TRUE,
       text |-> << "1", "a", ".", " ", "T", "\n", "3", ")", " ", "x", "?" >>],
      \* an empty page
      [name |-> << "x" >>, exists |-> TRUE, opens |-> TRUE,
       text |-> <<  >>],
      \* markers out of order, one of them twice
      [name |-> << "h", "w", "-", "a", "n", "n" >>, exists |-> TRUE, opens |-> TRUE,
       text |-> << "2", ":", " ", "=", "5", ".", "\n", "1", "a", ")", " ", "A", "\n", "1", "A", ")", " ", "b" >>],
      \* a directory entry whose file is gone (FileNotFoundError)
      [name |-> << "g", "o", "n", "e" >>, exists |-> FALSE, opens |-> TRUE,
       text |-> <<  >>],
      \* a file fitz cannot open
      [name |-> << "b", "a", "d", "1", "0", "0", "0" >>, exists |-> TRUE, opens |-> FALSE,
       text |-> <<  >>],
      \* a blank name: Submission's student_id validator raises
      [name |-> << " " >>, exists |-> TRUE, opens |-> TRUE,
       text |-> << "1", "a", ")", " ", "T" >>] }

\* A Rubric whose sub-questions carry the ids the parser gives them; idss
\* holds, per question, the ids of its sub-questions
KeyWithIds(idss) ==
    LET Subs(q) == [k \in 1..Len(idss[q]) |->
                       SubQuestion(idss[q][k], 1, GradingRule("NO_PARTIAL", 1, 0, 0),
                                   Solution(<< >>, << >>), "NUMERIC")]
        qs == [q \in 1..Len(idss) |->
                  [number |-> q, sub_questions |-> Subs(q), total_points |-> Len(idss[q])]]
    IN [assignment_id |-> "HW10", base_points |-> 0, questions |-> qs,
        total_points |-> SumSeq([q \in 1..Len(idss) |-> qs[q].total_points])]

\* Keys: two questions, the first in parts; a key without questions; a key
\* whose two questions carry the same number
BatchKeys ==
    { KeyWithIds(<< << << "1", "a" >>, << "1", "b" >> >>, << << "2" >> >> >>),
      KeyWithIds(<< >>),
      KeyWithIds(<< << << "1", "a" >> >>, << << "1", "a" >> >> >>) }

\* glob lists each file of the directory once, in any order
FileLists == { fs \in SeqsUpTo(Documents, MaxFiles) :
                 \A j, k \in 1..Len(fs) : j # k => fs[j] # fs[k] }

InitBatch ==
    /\ rubric \in BatchKeys
    /\ pdf_files \in FileLists
    /\ submissions = << >>
    /\ pc = "parsing"
    /\ i = 0
    /\ result = NoResult
    /\ submission = NoResult
    /\ question_grades = << >>
    /\ total_score = 0
    /\ compare_log = << >>
    /\ cmp_in = NoCall
    /\ cmp_out = NoCall
    /\ pdf_text = << >>
    /\ pdf_path = NoFile
    /\ cache_path = NoFile
    /\ CacheIdle
    /\ ToolsIdle
    /\ answer_text = << >>
    /\ calc_confidence = NoResult

\* one turn of the loop with the exception of parse() leaving parse_batch
ParseBatchStep_Propagates ==
    /\ pc = "parsing"
    /\ i < Len(pdf_files)
    /\ \E parsed \in { Parse(pdf_files[i + 1], rubric) } :
          IF "raised" \in DOMAIN parsed
          THEN pc' = "raised" /\ UNCHANGED << i, submissions,
                    cacheVars, toolVars >>
          ELSE pc' = pc /\ i' = i + 1 /\ submissions' = Append(submissions, parsed)
    /\ UNCHANGED << rubric, submission, question_grades, total_score, compare_log,
                    result, cmp_in, cmp_out, pdf_files, pdf_text, pdf_path,
                    cache_path, answer_text, calc_confidence,
                    cacheVars, toolVars >>

\* one turn of the loop: try parse(), append the submission, or report the
\* exception and go on
ParseBatchStep ==
    /\ pc = "parsing"
    /\ i < Len(pdf_files)
    /\ \E parsed \in { Parse(pdf_files[i + 1], rubric) } :
          submissions' = IF "raised" \in DOMAIN parsed THEN submissions
                         ELSE Append(submissions, parsed)
    /\ i' = i + 1
    /\ UNCHANGED << rubric, submission, pc, question_grades, total_score, compare_log,
                    result, cmp_in, cmp_out, pdf_files, pdf_text, pdf_path,
                    cache_path, answer_text, calc_confidence,
                    cacheVars, toolVars >>

\* the loop is over: return submissions
ParseBatchReturn ==
    /\ pc = "parsing"
    /\ i = Len(pdf_files)
    /\ pc' = "done"
    /\ result' = submissions
    /\ UNCHANGED << rubric, submission, i, question_grades, total_score, compare_log,
                    cmp_in, cmp_out, pdf_files, submissions, pdf_text, pdf_path,
                    cache_path, answer_text, calc_confidence,
                    cacheVars, toolVars >>

NextBatch == ParseBatchStep \/ ParseBatchReturn

SpecBatch == InitBatch /\ [][NextBatch]_vars

(***************************************************************************)
(* Properties of the submission parser.                                    *)
(***************************************************************************)
\* the document a submission of the batch was parsed from
DocumentOf(sub) == CHOOSE doc \in Documents : doc.name = sub.file_path

\* the placeholder for a question without a marker
Placeholder(q_id) == StudentAnswer(q_id, << >>, << >>, 0)

\* C14: the answer list of a parsed submission has one record per entry of
\* the key's list of sub-question ids, in that order and of the same length;
\* the record of an id with a marker in the text carries the marker's payload,
\* its cleaned form and its confidence, the record of an id without one is
\* the placeholder (raw "", parsed "", confidence 0.0); a marker whose id the
\* key does not have adds no record.
C14_OneAnswerPerExpectedId ==
    \A j \in 1..Len(submissions) :
        LET sub      == submissions[j]
            expected == [k \in 1..Len(SubQuestionsOf(rubric)) |-> SubQuestionsOf(rubric)[k].id]
            blocks   == FindAnswerBlocks(DocumentOf(sub).text)
            Marked(q_id) == \E b \in 1..Len(blocks) : blocks[b].q_id = q_id
        IN /\ Len(sub.answers) = Len(expected)
           /\ \A k \in 1..Len(expected) :
                 /\ sub.answers[k].question_id = expected[k]
                 /\ ~Marked(expected[k]) => sub.answers[k] = Placeholder(expected[k])
                 /\ Marked(expected[k]) =>
                        \E b \in 1..Len(blocks) :
                            /\ blocks[b].q_id = expected[k]
                            /\ sub.answers[k].raw_text = blocks[b].raw_text
                            /\ sub.answers[k].parsed_value = CleanAnswer(blocks[b].raw_text)
                            /\ sub.answers[k].confidence = blocks[b].confidence

\* a submission with an extracted answer and a placeholder, parsed from a
\* text with a marker the key does not have
C14_Witness ==
    \E j \in 1..Len(submissions) :
        LET sub    == submissions[j]
            blocks == FindAnswerBlocks(DocumentOf(sub).text)
        IN /\ \E k \in 1..Len(sub.answers) : sub.answers[k].raw_text # << >>
           /\ \E k \in 1..Len(sub.answers) : sub.answers[k] = Placeholder(sub.answers[k].question_id)
           /\ \E b \in 1..Len(blocks) :
                 \A k \in 1..Len(sub.answers) : sub.answers[k].question_id # blocks[b].q_id

\* parse() fails on the document: it is missing, it cannot be decoded, or
\* the Submission built from it is invalid (its student id is blank)
FailsToParse(doc) ==
    \/ ~doc.exists
    \/ ~doc.opens
    \/ Strip(ExtractStudentId(doc.name)) = << >>

\* C16: parse_batch never raises; after any number of documents, failing
\* ones among them, its list holds exactly one Submission for each document
\* that parsed, in directory order, and none for the failing ones; that
\* list is what it returns once every document has had its turn.
C16_BatchNeverAborts ==
    LET Parsed(doc) == ~FailsToParse(doc)
        good == SelectSeq(SubSeq(pdf_files, 1, i), Parsed)
    IN /\ pc # "raised"
       /\ Len(submissions) = Len(good)
       /\ \A k \in 1..Len(good) : submissions[k] = Parse(good[k], rubric)
       /\ pc = "done" => i = Len(pdf_files) /\ result = submissions

\* a finished batch whose first document failed and whose second parsed
C16_Witness ==
    /\ pc = "done"
    /\ Len(pdf_files) >= 2
    /\ FailsToParse(pdf_files[1])
    /\ ~FailsToParse(pdf_files[2])
    /\ Len(result) >= 1
    /\ result[1].file_path = pdf_files[2].name

(***************************************************************************)
(* _calculate_confidence on the payloads _find_answer_blocks hands it:     *)
(* match.group(3).strip(), so without white space at either end.           *)
(***************************************************************************)
MaxPayload == 5

PayloadAlphabet == {"x", "?", "\n"}

\* a payload of n characters, the k-th of which (if any) is c
LongPayload(n, k, c) == [j \in 1..n |-> IF j = k THEN c ELSE "x"]

\* every short payload, and payloads on either side of the 200 characters
\* that _calculate_confidence tests for
Payloads ==
    { p \in UNION { [1..k -> PayloadAlphabet] : k \in 0..MaxPayload } : Strip(p) = p }
    \cup { LongPayload(n, k, c) : n \in 199..202, k \in {0, 2}, c \in {"?", "\n"} }

InitConfidence ==
    /\ answer_text \in Payloads
    /\ calc_confidence = NoResult
    /\ pc = "calculate"
    /\ rubric = NoResult
    /\ submission = NoResult
    /\ i = 0
    /\ question_grades = << >>
    /\ total_score = 0
    /\ compare_log = << >>
    /\ result = NoResult
    /\ cmp_in = NoCall
    /\ cmp_out = NoCall
    /\ pdf_files = << >>
    /\ submissions = << >>
    /\ pdf_text = << >>
    /\ pdf_path = NoFile
    /\ cache_path = NoFile
    /\ CacheIdle
    /\ ToolsIdle

CalculateConfidenceCall ==
    /\ pc = "calculate"
    /\ calc_confidence' = CalculateConfidence(answer_text)
    /\ pc' = "calculated"
    /\ UNCHANGED << rubric, submission, i, question_grades, total_score, compare_log,
                    result, cmp_in, cmp_out, pdf_files, submissions, pdf_text, pdf_path,
                    cache_path, answer_text,
                    cacheVars, toolVars >>

NextConfidence == CalculateConfidenceCall

SpecConfidence == InitConfidence /\ [][NextConfidence]_vars

\* the lines a payload spans: one more than its line breaks
LinesOf(text) == Cardinality({ k \in 1..Len(text) : text[k] = "\n" }) + 1

\* clamp(c, 0, 100), in hundredths
Clamp(c) == IF c < 0 THEN 0 ELSE IF c > 100 THEN 100 ELSE c

\* C15: the confidence of a payload is 1.0 less 0.2 if it is longer than 200
\* characters, less 0.3 if it holds a '?', less 0.2 if it spans more than two
\* lines (so a payload of exactly three lines loses 0.2), less 0.3 if it is
\* shorter than 2 characters, clamped to [0, 1].
C15_ConfidenceFormula ==
    pc = "calculated" =>
        /\ calc_confidence = Clamp(100 - (IF Len(answer_text) > 200 THEN 20 ELSE 0)
                                       - (IF Contains(answer_text, "?") THEN 30 ELSE 0)
                                       - (IF LinesOf(answer_text) > 2 THEN 20 ELSE 0)
                                       - (IF Len(answer_text) < 2 THEN 30 ELSE 0))
        /\ calc_confidence \in 0..100

(***************************************************************************)
(* parsers/rubric_parser.py: RubricParser.  Texts, ids and solution values *)
(* are sequences of characters; points are numbers of points.              *)
(***************************************************************************)
\* PATTERNS["question"], under re.IGNORECASE
QuestionPattern ==
    Alt(<< Bol, Chr({"\n"}) >>) \o Star(Whitespace)
      \o OptP(Alt(<< WordI(<< "p", "r", "o", "b", "l", "e", "m" >>), WordI(<< "q", "u", "e", "s", "t", "i", "o", "n" >>), WordI(<< "q" >>) >>))
      \o Star(Whitespace) \o Grp(1, Plus(Digit)) \o Chr({"."}) \o Plus(Whitespace)

\* PATTERNS["sub_question"]
SubQuestionPattern ==
    Alt(<< Bol, Chr({"\n"}) >>) \o Star(Whitespace) \o Opt({"("}) \o Grp(1, Chr(LowerLetter))
      \o Opt({")"}) \o Chr({".", ")"}) \o Plus(Whitespace)

\* \d+(?:\.\d+)?
Decimal == Plus(Digit) \o OptP(Chr({"."}) \o Plus(Digit))

\* PATTERNS["points"], under re.IGNORECASE
PointsPattern ==
    Alt(<< Chr({"[", "("}) \o Star(Whitespace) \o Grp(1, Decimal) \o Star(Whitespace)
             \o OptP(Alt(<< WordI(<< "p", "o", "i", "n", "t" >>) \o OptI({"s"}), WordI(<< "p", "t" >>) \o OptI({"s"}) >>))
             \o Star(Whitespace) \o Chr({"]", ")"}),
           WordBoundary \o Grp(2, Decimal) \o Star(Whitespace)
             \o Alt(<< WordI(<< "p", "o", "i", "n", "t", "s" >>), WordI(<< "p", "t", "s" >>) >>) \o WordBoundary >>)

\* (.+?)(?=\n|$) under re.MULTILINE, as capture group k
RestOfLine(k) ==
    Grp(k, LazyPlusDot(FALSE)) \o Ahead(Alt(<< Chr({"\n"}), Eol(TRUE) >>))

\* PATTERNS["solution"], under re.IGNORECASE | re.MULTILINE
SolutionPattern ==
    Alt(<< Alt(<< WordI(<< "a", "n", "s", "w", "e", "r" >>), WordI(<< "s", "o", "l", "u", "t", "i", "o", "n" >>), WordI(<< "a", "n", "s" >>), WordI(<< "s", "o", "l" >>) >>)
             \o Star(Whitespace) \o Chr({":", "="}) \o Star(Whitespace) \o RestOfLine(1),
           Behind({"\n"}) \o Star(Whitespace) \o Chr({"="}) \o Star(Whitespace)
             \o RestOfLine(2) >>)

\* PATTERNS["grading_note"], under re.IGNORECASE | re.DOTALL
GradingNotePattern ==
    WordI(<< "g", "r", "a", "d", "i", "n", "g" >>) \o Star(Whitespace) \o OptP(WordI(<< "n", "o", "t", "e" >>)) \o Opt({":"})
      \o Star(Whitespace) \o Grp(1, LazyPlusDot(TRUE))
      \o Ahead(Alt(<< Word(<< "\n", "\n" >>), Eol(FALSE) >>))

\* _extract_grading_rule: r'min(?:imum)?\s*(\d+)'
MinimumPattern ==
    Word(<< "m", "i", "n" >>) \o OptP(Word(<< "i", "m", "u", "m" >>)) \o Star(Whitespace) \o Grp(1, Plus(Digit))

\* _extract_assignment_id: the pattern, under re.IGNORECASE
AssignmentPattern ==
    Alt(<< WordI(<< "h", "w" >>), WordI(<< "h", "o", "m", "e", "w", "o", "r", "k" >>), WordI(<< "a", "s", "s", "i", "g", "n", "m", "e", "n", "t" >>) >>)
      \o Star(Whitespace) \o Opt({"#"}) \o Star(Whitespace) \o Grp(1, Plus(Digit))

\* _extract_base_points: the pattern, under re.IGNORECASE
BasePointsPattern ==
    WordI(<< "g", "i", "v", "e" >>) \o Plus(Whitespace) \o Grp(1, Plus(Digit)) \o Plus(Whitespace)
      \o WordI(<< "p", "o", "i", "n", "t" >>) \o OptI({"s"}) \o Plus(Whitespace) \o WordI(<< "f", "o", "r" >>)
      \o Plus(Whitespace) \o WordI(<< "c", "o", "m", "p", "l", "e", "t" >>)

\* _infer_question_type: \b(?:true|false)\b, p\s*\( and o\s*\(
TrueFalsePattern == WordBoundary \o Alt(<< Word(<< "t", "r", "u", "e" >>), Word(<< "f", "a", "l", "s", "e" >>) >>) \o WordBoundary

CallPattern(letter) == Chr({letter}) \o Star(Whitespace) \o Chr({"("})

\* str(n) for a natural number n
RECURSIVE NatToDigits(_)
NatToDigits(n) ==
    LET digit == CHOOSE c \in Digit : DigitValue[c] = n % 10
    IN IF n < 10 THEN << digit >> ELSE NatToDigits(n \div 10) \o << digit >>

\* the exact value num/den of digits with at most one '.' among them
FractionOf(val) ==
    LET IsDigit(c) == c \in Digit
        dots == { k \in 1..Len(val) : val[k] = "." }
    IN Divide(DigitsToNat(SelectSeq(val, IsDigit)),
              IF dots = {} THEN 1 ELSE Pow10(Len(val) - Least(dots)))

\* float(val) for such digits: the number itself when it is whole, the
\* fraction num/den when it is not
FloatOf(val) ==
    The({ IF d.den = 1 THEN d.num ELSE d : d \in { FractionOf(val) } })

\* _extract_assignment_id
ExtractAssignmentId(text) ==
    The({ IF m.ok THEN << "H", "W" >> \o Group(text, m, 1) ELSE << "U", "n", "k", "n", "o", "w", "n" >> :
          m \in { Search(AssignmentPattern, text) } })

\* _extract_base_points
ExtractBasePoints(text) ==
    The({ IF m.ok THEN FloatOf(Group(text, m, 1)) ELSE 0 :
          m \in { Search(BasePointsPattern, text) } })

\* text[start:end] for the matches of finditer: from where the k-th match
\* starts (from_end: ends) to where the next one starts, or to the end
Slice(text, matches, k, from_end) ==
    SubSeq(text, IF from_end THEN matches[k].end ELSE matches[k].start,
           IF k < Len(matches) THEN matches[k + 1].start - 1 ELSE Len(text))

SplitIntoQuestions_WholeText(text) ==
    The({ IF matches = << >> THEN << [q_num |-> 1, q_text |-> text] >>
          ELSE [k \in 1..Len(matches) |->
                   [q_num |-> DigitsToNat(Group(text, matches[k], 1)),
                    q_text |-> Slice(text, matches, k, FALSE)]] :
          matches \in { FindIter(QuestionPattern, text) } })

\* _split_into_questions: the (q_num, q_text) blocks
SplitIntoQuestions(text) ==
    The({ [k \in 1..Len(matches) |->
              [q_num |-> DigitsToNat(Group(text, matches[k], 1)),
               q_text |-> Slice(text, matches, k, FALSE)]] :
          matches \in { FindIter(QuestionPattern, text) } })

\* _extract_points
ExtractPoints(text) ==
    The({ IF m.ok THEN FloatOf(Group(text, m, 1) \o Group(text, m, 2)) ELSE 1 :
          m \in { Search(PointsPattern, text) } })

\* str.split(sep) for a one-character sep
RECURSIVE Split(_, _)
Split(s, sep) ==
    LET at == { k \in 1..Len(s) : s[k] = sep }
    IN IF at = {} THEN << s >>
       ELSE << SubSeq(s, 1, Least(at) - 1) >> \o Split(SubSeq(s, Least(at) + 1, Len(s)), sep)

\* float(part) for a part of a fraction: defined on digits with at most one
\* '.' and at least one digit; any other text counts as a ValueError (signs,
\* exponents, inf and nan, which float() also reads, are not modelled)
IsDecimalText(part) ==
    /\ \A k \in 1..Len(part) : part[k] \in Digit \cup {"."}
    /\ Cardinality({ k \in 1..Len(part) : part[k] = "." }) <= 1
    /\ \E k \in 1..Len(part) : part[k] \in Digit

\* f"{num / denom:.6f}".rstrip("0").rstrip("."), for num/denom as the exact
\* fraction n/d, rounded half to even at the sixth place (on a tie Python
\* rounds the binary float; no text tried gives one)
FormatDecimal(n, d) ==
    LET scaled  == (n * 1000000) \div d
        twice   == 2 * ((n * 1000000) % d)
        rounded == IF twice > d \/ (twice = d /\ scaled % 2 = 1) THEN scaled + 1 ELSE scaled
        frac    == NatToDigits(rounded % 1000000)
        zeros   == [k \in 1..(6 - Len(frac)) |-> "0"]
    IN RStripChars(RStripChars(NatToDigits(rounded \div 1000000) \o << "." >> \o zeros \o frac,
                               {"0"}), {"."})

\* _generate_equivalent_forms
GenerateEquivalentForms(answer) ==
    LET parts == Split(Replace(answer, << " " >>, << >>), "/")
        A == FractionOf(parts[1])
        B == FractionOf(parts[2])
        decimal == IF /\ Contains(answer, "/")
                      /\ Len(parts) = 2
                      /\ IsDecimalText(parts[1]) /\ IsDecimalText(parts[2])
                      /\ B.num # 0
                   THEN << FormatDecimal(A.num * B.den, A.den * B.num) >>
                   ELSE << >>
    IN decimal \o
       (IF Lower(answer) \in { << "t", "r", "u", "e" >>, << "t" >> }
        THEN << << "T", "r", "u", "e" >>, << "t", "r", "u", "e" >>, << "T", "R", "U", "E" >>, << "T" >> >>
        ELSE IF Lower(answer) \in { << "f", "a", "l", "s", "e" >>, << "f" >> }
        THEN << << "F", "a", "l", "s", "e" >>, << "f", "a", "l", "s", "e" >>, << "F", "A", "L", "S", "E" >>, << "F" >> >>
        ELSE << >>)

\* _extract_solution
ExtractSolution(text) ==
    The({ IF m.ok
          THEN The({ Solution(answer, GenerateEquivalentForms(answer)) :
                     answer \in { RStripChars(FirstLine(Strip(Group(text, m, 1)
                                                              \o Group(text, m, 2))),
                                              {"."}) } })
          ELSE Solution(<< >>, << >>) :
          m \in { Search(SolutionPattern, text) } })

RuleOfNote_FloorAtPenalty(note) ==
    IF HasSub(note, << "+", "1" >>) /\ HasSub(note, << "-", "1" >>)
    THEN The({ GradingRule("PER_ITEM_PENALTY", 1, -1,
                           IF m.ok THEN FloatOf(Group(note, m, 1)) ELSE -1) :
               m \in { Search(MinimumPattern, note) } })
    ELSE IF HasSub(note, << "p", "a", "r", "t", "i", "a", "l" >>)
    THEN GradingRule("PARTIAL_CREDIT", 1, 0, 0)
    ELSE GradingRule("NO_PARTIAL", 1, 0, 0)

\* _extract_grading_rule: the rule for a grading note
RuleOfNote(note) ==
    IF HasSub(note, << "+", "1" >>) /\ HasSub(note, << "-", "1" >>)
    THEN The({ GradingRule("PER_ITEM_PENALTY", 1, -1,
                           IF m.ok THEN FloatOf(Group(note, m, 1)) ELSE 0) :
               m \in { Search(MinimumPattern, note) } })
    ELSE IF HasSub(note, << "p", "a", "r", "t", "i", "a", "l" >>)
    THEN GradingRule("PARTIAL_CREDIT", 1, 0, 0)
    ELSE GradingRule("NO_PARTIAL", 1, 0, 0)

\* _extract_grading_rule
ExtractGradingRule(text) ==
    The({ IF m.ok THEN RuleOfNote(Lower(Group(text, m, 1)))
          ELSE GradingRule("NO_PARTIAL", 1, 0, 0) :
          m \in { Search(GradingNotePattern, text) } })

\* _infer_question_type: the type for the lower-cased text
TypeOfLower(text_lower) ==
    IF Search(TrueFalsePattern, text_lower).ok THEN "TRUE_FALSE"
    ELSE IF Search(CallPattern("p"), text_lower).ok THEN "PROBABILITY"
    ELSE IF Search(CallPattern("o"), text_lower).ok \/ HasSub(text_lower, << "b", "i", "g", "-", "o" >>)
    THEN "BIG_O"
    ELSE IF \E word \in { << "p", "r", "o", "v", "e" >>, << "p", "r", "o", "o", "f" >>, << "s", "h", "o", "w", " ", "t", "h", "a", "t" >> } : HasSub(text_lower, word)
    THEN "PROOF"
    ELSE IF \E word \in { << "e", "x", "p", "l", "a", "i", "n" >>, << "d", "e", "s", "c", "r", "i", "b", "e" >> } : HasSub(text_lower, word)
    THEN "SHORT_ANSWER"
    ELSE "NUMERIC"

\* _infer_question_type
InferQuestionType(text) == The({ TypeOfLower(text_lower) : text_lower \in { Lower(text) } })

\* the SubQuestion with this id that the components of text make
SubQuestionFrom(id, text) ==
    SubQuestion(id, ExtractPoints(text), ExtractGradingRule(text), ExtractSolution(text),
                InferQuestionType(text))

\* _parse_sub_questions
ParseSubQuestions(q_num, text) ==
    The({ IF Len(matches) < 2 THEN << >>
          ELSE [k \in 1..Len(matches) |->
                   The({ SubQuestionFrom(NatToDigits(q_num) \o Group(text, matches[k], 1),
                                         sub_text) :
                         sub_text \in { Strip(Slice(text, matches, k, TRUE)) } })] :
          matches \in { FindIter(SubQuestionPattern, text) } })

\* Question, with total_points as _parse_question works it out
Question(number, sub_questions) ==
    [number |-> number, sub_questions |-> sub_questions,
     total_points |-> SumSeq([k \in 1..Len(sub_questions) |-> sub_questions[k].points])]

\* _parse_question
ParseQuestion(q_num, text) ==
    The({ IF parts = << >>
          THEN The({ Question(q_num, << whole >>) :
                     whole \in { SubQuestionFrom(NatToDigits(q_num), text) } })
          ELSE Question(q_num, parts) :
          parts \in { ParseSubQuestions(q_num, text) } })

Rubric_NoBase(assignment_id, base_points, questions) ==
    [assignment_id |-> assignment_id,
     base_points |-> base_points,
     questions |-> questions,
     total_points |-> SumSeq([q \in 1..Len(questions) |-> questions[q].total_points])]

\* Rubric, with total_points as _parse_rubric_text works it out
Rubric(assignment_id, base_points, questions) ==
    [assignment_id |-> assignment_id,
     base_points |-> base_points,
     questions |-> questions,
     total_points |-> SumSeq([q \in 1..Len(questions) |-> questions[q].total_points])
                      + base_points]

\* _parse_rubric_text
ParseRubricText(text) ==
    The({ The({ Rubric(ExtractAssignmentId(text), ExtractBasePoints(text), questions) :
                questions \in { [k \in 1..Len(blocks) |->
                                   ParseQuestion(blocks[k].q_num, blocks[k].q_text)] } }) :
          blocks \in { SplitIntoQuestions(text) } })

(***************************************************************************)
(* parsers/rubric_parser.py: RubricParser.parse and its cache.             *)
(***************************************************************************)
\* QuestionType: the value of each member
QuestionTypeValue ==
    ("TRUE_FALSE" :> "true_false") @@ ("NUMERIC" :> "numeric")
      @@ ("PROBABILITY" :> "probability") @@ ("BIG_O" :> "big_o") @@ ("PROOF" :> "proof")
      @@ ("MULTIPLE_CHOICE" :> "multiple_choice") @@ ("SHORT_ANSWER" :> "short_answer")
      @@ ("GRAPHING" :> "graphing")

\* GradingRuleType: the value of each member
GradingRuleTypeValue ==
    ("EXACT_MATCH" :> "exact_match") @@ ("EQUIVALENT" :> "equivalent")
      @@ ("PER_ITEM_PENALTY" :> "per_item_penalty") @@ ("NO_PARTIAL" :> "no_partial")
      @@ ("PARTIAL_CREDIT" :> "partial_credit")

\* Enum(value): the member with that value
MemberOf(values, value) == CHOOSE member \in DOMAIN values : values[member] = value

\* Rubric.model_dump_json, as the data json.load reads back: every enum
\* member is written as its value
ModelDumpJson(r) ==
    LET DumpSub(sq) ==
            [sq EXCEPT !.question_type = QuestionTypeValue[@],
                       !.grading_rule.rule_type = GradingRuleTypeValue[@]]
        DumpQuestion(q) ==
            [q EXCEPT !.sub_questions = [k \in 1..Len(@) |-> DumpSub(@[k])]]
    IN [r EXCEPT !.questions = [k \in 1..Len(@) |-> DumpQuestion(@[k])]]

ModelValidate_KeepValues(data) == data

\* Rubric.model_validate: every enum value is read as its member
ModelValidate(data) ==
    LET LoadSub(sq) ==
            [sq EXCEPT !.question_type = MemberOf(QuestionTypeValue, @),
                       !.grading_rule.rule_type = MemberOf(GradingRuleTypeValue, @)]
        LoadQuestion(q) ==
            [q EXCEPT !.sub_questions = [k \in 1..Len(@) |-> LoadSub(@[k])]]
    IN [data EXCEPT !.questions = [k \in 1..Len(@) |-> LoadQuestion(@[k])]]

\* the content of a cache file whose write stopped part way: json.load raises
Truncated == [truncated |-> TRUE]

\* a file at a path
File(st_mtime, content) == [exists |-> TRUE, st_mtime |-> st_mtime, content |-> content]

\* the content of a PDF: whether fitz.open reads it, and the text of its pages
Pdf(opens, text) == [opens |-> opens, text |-> text]

LoadFromCache_IgnoreMtime(pdf, cache) ==
    IF ~cache.exists THEN << >>
    ELSE IF cache.content = Truncated THEN << >>
    ELSE << ModelValidate(cache.content) >>

\* _load_from_cache: << >> stands for None
LoadFromCache(pdf, cache) ==
    IF ~cache.exists THEN << >>
    ELSE IF cache.st_mtime < pdf.st_mtime THEN << >>
    ELSE IF cache.content = Truncated THEN << >>
    ELSE << ModelValidate(cache.content) >>

\* _save_to_cache at time now: open(cache_path, "w") fails and leaves the
\* file as it is, or the write fails part way, or the dump is written
SaveToCache(cache, r, now, failure) ==
    CASE failure = "open" -> cache
      [] failure = "write" -> File(now, Truncated)
      [] OTHER -> File(now, ModelDumpJson(r))

MaxKeyParts == 2

MaxTime == 3

\* st_mtime values
Times == 1..MaxTime

\* pieces of answer-key text
KeyFragments ==
    << << "G", "i", "v", "e", " ", "2", " ", "p", "o", "i", "n", "t", "s", 
          " ", "f", "o", "r", " ", "c", "o", "m", "p", "l", "e", "t", "i", 
          "n", "g", "\n" >>,
       << "1", ".", " ", "T", " ", "(", "2", " ", "p", "t", "s", ")", "\n", 
          "A", "n", "s", "w", "e", "r", ":", " ", "T", "\n", "G", "r", "a", 
          "d", "i", "n", "g", ":", " ", "+", "1", " ", "-", "1", "\n", 
          "\n" >>,
       << "2", ".", " ", "\n", "a", ")", " ", "[", "2", "]", "\n", "b", 
          ")", " ", "A", "n", "s", ":", " ", "1", "/", "4", "\n" >>,
       << "1", ".", " ", "x", "\n", "a", ")", " ", "y", "\n", "a", ")", 
          " ", "z", "\n" >>,
       << "G", "r", "a", "d", "i", "n", "g", ":", " ", "+", "1", " ", "-", 
          "1", " ", "m", "i", "n", " ", "2", "\n" >>,
       << "Q", "3", ".", " ", "o", "(", "n", ")", "\n", "S", "o", "l", ":", 
          " ", "n", ".", "\n" >> >>

\* the texts made of n pieces
RECURSIVE KeyTextsOf(_)
KeyTextsOf(n) ==
    IF n = 0 THEN { << >> }
    ELSE { KeyFragments[k] \o rest : k \in 1..Len(KeyFragments), rest \in KeyTextsOf(n - 1) }

\* the answer-key texts tried: up to MaxKeyParts pieces, and a blank page
KeyTexts == UNION { KeyTextsOf(n) : n \in 0..MaxKeyParts } \cup { << " ", "\n" >> }

\* the text whose parsed rubric an earlier call may have left in the cache
CachedTexts == { KeyFragments[2] \o KeyFragments[5] }

\* the files pdf_path may name: none, one fitz cannot open, one per text
KeyPdfs ==
    { NoFile, File(2, Pdf(FALSE, << >>)) } \cup { File(2, Pdf(TRUE, text)) : text \in KeyTexts }

\* the files _cache_path(pdf_path) may name: none, or what an earlier
\* _save_to_cache left there
KeyCaches ==
    { NoFile } \cup { SaveToCache(NoFile, ParseRubricText(text), now, failure) :
                      text \in CachedTexts, now \in Times, failure \in {"none", "write"} }

InitKey ==
    /\ pc = "parse"
    /\ pdf_path \in KeyPdfs
    /\ cache_path \in KeyCaches
    /\ use_cache \in BOOLEAN
    /\ cached = << >>
    /\ pdf_text = << >>
    /\ rubric = NoResult
    /\ submission = NoResult
    /\ i = 0
    /\ question_grades = << >>
    /\ total_score = 0
    /\ compare_log = << >>
    /\ result = NoResult
    /\ cmp_in = NoCall
    /\ cmp_out = NoCall
    /\ pdf_files = << >>
    /\ submissions = << >>
    /\ answer_text = << >>
    /\ calc_confidence = NoResult
    /\ CacheDirIdle
    /\ ToolsIdle

\* parse() once the cache gave nothing: _extract_pdf_text, the blank
\* check and _parse_rubric_text; the Rubric, or what is raised
ParseSource(pdf) ==
    IF ~pdf.opens THEN Raised("ValueError")
    ELSE IF Strip(pdf.text) = << >> THEN Raised("ValueError")
    ELSE ParseRubricText(pdf.text)

\* RubricParser.parse(pdf_path, use_cache)
ParseCall ==
    /\ pc = "parse"
    /\ IF ~pdf_path.exists
       THEN /\ pc' = "raised"
            /\ rubric' = Raised("FileNotFoundError")
            /\ UNCHANGED << pdf_text, cache_path, cached >>
       ELSE \E parsed \in { ParseSource(pdf_path.content) },
               loaded \in { IF use_cache THEN LoadFromCache(pdf_path, cache_path)
                            ELSE << >> } :
               /\ cached' = loaded
               /\ IF loaded # << >>
                  THEN /\ pc' = "parsed"
                       /\ rubric' = loaded[1]
                       /\ UNCHANGED << pdf_text, cache_path >>
                  ELSE /\ rubric' = parsed
                       /\ pdf_text' = IF pdf_path.content.opens THEN pdf_path.content.text
                                      ELSE pdf_text
                       /\ IF "raised" \in DOMAIN parsed
                          THEN pc' = "raised" /\ UNCHANGED cache_path
                          ELSE /\ pc' = "parsed"
                               /\ \E now \in Times, failure \in {"none", "open", "write"} :
                                     /\ cache_path.exists => now >= cache_path.st_mtime
                                     /\ cache_path' =
                                           SaveToCache(cache_path, parsed, now, failure)
    /\ UNCHANGED << submission, i, question_grades, total_score, compare_log, result,
                    cmp_in, cmp_out, pdf_files, submissions, pdf_path, answer_text,
                    calc_confidence, use_cache, dirVars, toolVars >>

NextKey == ParseCall

SpecKey == InitKey /\ [][NextKey]_vars

(***************************************************************************)
(* Claims about the rubrics that RubricParser.parse returns.               *)
(***************************************************************************)
\* the sub-questions of the returned rubric, in order
ParsedSubQuestions == SubQuestionsOf(rubric)

\* C17: every rubric that parse returns has total_points equal to
\* base_points plus the sum of its questions' total_points, and every
\* question in it has total_points equal to the sum of its sub-questions'
\* points
C17_TotalsAddUp ==
    pc = "parsed" =>
        /\ rubric.total_points =
              rubric.base_points
                + SumSeq([q \in 1..Len(rubric.questions) |-> rubric.questions[q].total_points])
        /\ \A q \in 1..Len(rubric.questions) :
              rubric.questions[q].total_points =
                 SumSeq([k \in 1..Len(rubric.questions[q].sub_questions) |->
                            rubric.questions[q].sub_questions[k].points])

\* parse returned a rubric with base points and a question of several
\* sub-questions worth more than one point together
C17_Witness ==
    /\ pc = "parsed"
    /\ rubric.base_points > 0
    /\ \E q \in 1..Len(rubric.questions) :
          /\ Len(rubric.questions[q].sub_questions) >= 2
          /\ rubric.questions[q].total_points > 2

\* C18: in every rubric that parse returns the sub-question ids are
\* pairwise distinct across the whole rubric
C18_UniqueIds ==
    pc = "parsed" =>
        \A j, k \in 1..Len(ParsedSubQuestions) :
            j # k => ParsedSubQuestions[j].id # ParsedSubQuestions[k].id

\* the per-item-penalty rules of the returned rubric
ParsedPenaltyRules ==
    { rule \in { ParsedSubQuestions[k].grading_rule : k \in 1..Len(ParsedSubQuestions) } :
        rule.rule_type = "PER_ITEM_PENALTY" }

\* C19, as stated: every per-item-penalty rule of a rubric that parse
\* returns has minimum_score <= points_incorrect
C19_FloorNotAbovePenalty ==
    pc = "parsed" => \A rule \in ParsedPenaltyRules : rule.minimum_score <= rule.points_incorrect

\* C19, amended: every per-item-penalty rule of a rubric that parse returns
\* has points_correct 1, points_incorrect -1 and a minimum_score of 0 or
\* more, so the floor is above the penalty
C19_PenaltyRuleShape ==
    pc = "parsed" =>
        \A rule \in ParsedPenaltyRules :
            /\ rule.points_correct = 1
            /\ rule.points_incorrect = -1
            /\ rule.minimum_score >= 0
            /\ rule.minimum_score > rule.points_incorrect

\* parse read the text and returned a rubric with a penalty rule whose
\* note states a floor
C19_Witness ==
    /\ pc = "parsed"
    /\ pdf_text # << >>
    /\ \E rule \in ParsedPenaltyRules : rule.minimum_score = 2

\* parse returned or raised after it read the text of the document, that
\* is, without serving a cache entry
KeyTextRead ==
    /\ pc \in {"parsed", "raised"}
    /\ pdf_path.exists
    /\ pdf_path.content.opens
    /\ pc = "parsed" => pdf_text # << >>

\* the text of the document has no match of the question pattern
NoQuestionMarker == FindIter(QuestionPattern, pdf_path.content.text) = << >>

\* C20, as stated: when the text has no question marker, parse does not
\* fail and returns a rubric with zero questions and zero total points
C20_NoMarkerGivesZeroTotal ==
    (KeyTextRead /\ NoQuestionMarker) =>
        /\ pc = "parsed"
        /\ rubric.questions = << >>
        /\ rubric.total_points = 0

\* C20, amended: when the text is not blank and has no question marker,
\* parse does not fail and returns a rubric with zero questions whose
\* total_points is its base_points, the number of the base-points
\* statement or 0 without one
C20_NoMarkerGivesBaseTotal ==
    (KeyTextRead /\ NoQuestionMarker /\ Strip(pdf_path.content.text) # << >>) =>
        /\ pc = "parsed"
        /\ rubric.questions = << >>
        /\ rubric.total_points = rubric.base_points
        /\ rubric.base_points = ExtractBasePoints(pdf_path.content.text)

\* parse read a text with a base-points statement and no question marker
\* and returned a rubric with that many points
C20_Witness ==
    /\ KeyTextRead
    /\ NoQuestionMarker
    /\ pc = "parsed"
    /\ rubric.questions = << >>
    /\ rubric.total_points = 2

(***************************************************************************)
(* RubricParser.parse called again and again on the documents of a file    *)
(* system, with the files of cache_dir kept between the calls.             *)
(***************************************************************************)
MaxCalls == 2

\* the paths parse is called with
SourcePaths ==
    { [dir |-> "a", stem |-> "hw1"], [dir |-> "b", stem |-> "hw1"],
      [dir |-> "c", stem |-> "hw1"], [dir |-> "a", stem |-> "hw2"] }

\* _cache_path: the name of the file in cache_dir
CachePath(path) == path.stem \o ".json"

CachePaths == { CachePath(path) : path \in SourcePaths }

\* the texts of the documents
SourceTexts == { KeyFragments[3], KeyFragments[6] }

\* the file systems the calls start from: a/hw1.pdf and b/hw1.pdf are
\* documents, b/hw1.pdf possibly a blank one, c/hw1.pdf does not exist and
\* a/hw2.pdf cannot be opened
SourceFiles ==
    { [path \in SourcePaths |->
          CASE path.dir = "c" -> NoFile
            [] path.stem = "hw2" -> File(1, Pdf(FALSE, << >>))
            [] path.dir = "a" -> File(ma, Pdf(TRUE, KeyFragments[3]))
            [] OTHER -> File(2, Pdf(TRUE, tb))] :
      ma \in {1, MaxTime}, tb \in { KeyFragments[6], << " ", "\n" >> } }

\* what earlier calls on a/hw1.pdf left in cache_dir
CacheDirs ==
    { [name \in CachePaths |-> IF name = "hw1.json" THEN entry ELSE NoFile] :
      entry \in { NoFile, SaveToCache(NoFile, ParseRubricText(KeyFragments[3]), 1, "none"),
                  SaveToCache(NoFile, ParseRubricText(KeyFragments[3]), 1, "write") } }

\* what fitz.open finds in the documents
SourcePdfs ==
    { Pdf(FALSE, << >>), Pdf(TRUE, << " ", "\n" >>) } \cup { Pdf(TRUE, text) : text \in SourceTexts }

\* ParseSource on each of these documents, computed once
ParsedSources == [pdf \in SourcePdfs |-> ParseSource(pdf)]

InitCache ==
    /\ pc = "idle"
    /\ pdf_files \in SourceFiles
    /\ cache_dir \in CacheDirs
    /\ written_for = [name \in CachePaths |-> [dir |-> "a", stem |-> "hw1"]]
    /\ clock = 1
    /\ i = 0
    /\ pdf_path = NoFile
    /\ use_cache = FALSE
    /\ cached = << >>
    /\ pdf_text = << >>
    /\ rubric = NoResult
    /\ submission = NoResult
    /\ question_grades = << >>
    /\ total_score = 0
    /\ compare_log = << >>
    /\ result = NoResult
    /\ cmp_in = NoCall
    /\ cmp_out = NoCall
    /\ submissions = << >>
    /\ cache_path = NoFile
    /\ answer_text = << >>
    /\ calc_confidence = NoResult
    /\ ToolsIdle

ParseRubric_CacheFirst(pdf, cache, use) ==
    LET loaded == IF /\ use
                     /\ cache.exists
                     /\ cache.content # Truncated
                     /\ pdf.exists => cache.st_mtime >= pdf.st_mtime
                  THEN << ModelValidate(cache.content) >>
                  ELSE << >>
    IN  IF loaded # << >>
        THEN [returns |-> loaded[1], cached |-> loaded, reads |-> FALSE, saves |-> FALSE]
        ELSE IF ~pdf.exists
        THEN [returns |-> Raised("FileNotFoundError"), cached |-> << >>,
              reads |-> FALSE, saves |-> FALSE]
        ELSE [returns |-> ParsedSources[pdf.content], cached |-> << >>,
              reads |-> pdf.content.opens,
              saves |-> ~("raised" \in DOMAIN ParsedSources[pdf.content])]

\* parse(pdf_path, use_cache) given the document and the cache file that it
\* finds: what it returns or raises, its local cached, whether it got the
\* text of the document and whether it calls _save_to_cache
ParseRubric(pdf, cache, use) ==
    IF ~pdf.exists
    THEN [returns |-> Raised("FileNotFoundError"), cached |-> << >>,
          reads |-> FALSE, saves |-> FALSE]
    ELSE LET loaded == IF use THEN LoadFromCache(pdf, cache) ELSE << >>
         IN  IF loaded # << >>
             THEN [returns |-> loaded[1], cached |-> loaded, reads |-> FALSE, saves |-> FALSE]
             ELSE [returns |-> ParsedSources[pdf.content], cached |-> << >>,
                   reads |-> pdf.content.opens,
                   saves |-> ~("raised" \in DOMAIN ParsedSources[pdf.content])]

\* one call of parse(path, use), from its first line to its return or
\* raise, with what it leaves in cache_dir; failure is how _save_to_cache ends
ParseStep(path, use, failure) ==
    \E out \in { ParseRubric(pdf_files[path], cache_dir[CachePath(path)], use) } :
       /\ out.saves \/ failure = "none"
       /\ pdf_path' = path
       /\ use_cache' = use
       /\ cached' = out.cached
       /\ rubric' = out.returns
       /\ pdf_text' = IF out.reads THEN pdf_files[path].content.text ELSE << >>
       /\ IF out.saves
          THEN /\ cache_dir' = [cache_dir EXCEPT ![CachePath(path)] =
                                   SaveToCache(@, out.returns, clock, failure)]
               /\ written_for' = IF failure = "open" THEN written_for
                                 ELSE [written_for EXCEPT ![CachePath(path)] = path]
          ELSE UNCHANGED << cache_dir, written_for >>

\* a caller of parse: any path, with or without the cache
ParseCached ==
    /\ i < MaxCalls
    /\ i' = i + 1
    /\ \E path \in SourcePaths, use \in BOOLEAN, failure \in {"none", "open", "write"} :
          ParseStep(path, use, failure)
    /\ pc' = IF "raised" \in DOMAIN rubric' THEN "raised" ELSE "parsed"
    /\ UNCHANGED << submission, question_grades, total_score, compare_log, result,
                    cmp_in, cmp_out, pdf_files, submissions, cache_path, answer_text,
                    calc_confidence, clock, toolVars >>

\* time passes: what st_mtime reads after a later write
Tick ==
    /\ clock < MaxTime
    /\ clock' = clock + 1
    /\ UNCHANGED << gradeVars, cmpVars, pdf_files, submissions, pdf_text, pdf_path,
                    cache_path, answer_text, calc_confidence, use_cache, cached,
                    cache_dir, written_for, toolVars >>

\* the document at pdf_path is replaced between two calls: what
\* pdf_path.stat().st_mtime and fitz.open read afterwards
Touch ==
    /\ pc # "idle"
    /\ \E path \in { p \in SourcePaths : p.stem = "hw1" /\ pdf_files[p].exists }, text \in SourceTexts :
          /\ pdf_files[path].content.text # text
          /\ pdf_files' = [pdf_files EXCEPT ![path] = File(clock, Pdf(TRUE, text))]
    /\ pc' = "idle"
    /\ UNCHANGED << rubric, submission, i, question_grades, total_score, compare_log,
                    result, cmpVars, submissions, pdf_text, pdf_path, cache_path,
                    answer_text, calc_confidence, cacheVars, toolVars >>

NextCache == ParseCached \/ Tick \/ Touch

SpecCache == InitCache /\ [][NextCache]_vars

(***************************************************************************)
(* Claims about the cache of RubricParser.parse.                           *)
(***************************************************************************)
\* a step that is one call of parse
ParseCalled == i' = i + 1

\* the cache entry is there, is not older than the document and its
\* content deserializes
CacheEntryValid(pdf, cache) ==
    /\ cache.exists
    /\ cache.st_mtime >= pdf.st_mtime
    /\ cache.content # Truncated

\* C21: a call of parse on a document that exists returns the cached key,
\* without reading the document and without touching cache_dir, only if
\* caching is on and the entry exists, is not older than the document and
\* deserializes; whenever that is not so the call does what a parse of the
\* document does: it returns the freshly parsed key (or raises that parse's
\* error) and has read the document
C21_ServedOnlyIfValid ==
    [][(ParseCalled /\ pdf_files[pdf_path'].exists) =>
          LET pdf == pdf_files[pdf_path']
              cache == cache_dir[CachePath(pdf_path')]
          IN  /\ cached' # << >> =>
                    /\ use_cache'
                    /\ CacheEntryValid(pdf, cache)
                    /\ pdf_text' = << >>
                    /\ cache_dir' = cache_dir
                    /\ rubric' = ModelValidate(cache.content)
              /\ ~(use_cache' /\ CacheEntryValid(pdf, cache)) =>
                    /\ cached' = << >>
                    /\ rubric' = ParsedSources[pdf.content]
                    /\ pc' = "parsed" => pdf_text' = pdf.content.text]_i

\* parse was called with use_cache on a document whose cache entry is older
\* than the document, and returned the key parsed from the document
C21_Witness ==
    /\ pc = "parsed"
    /\ use_cache
    /\ cached = << >>
    /\ pdf_text = pdf_files[pdf_path].content.text
    /\ cache_dir[CachePath(pdf_path)] = File(clock, ModelDumpJson(rubric))

\* C23: the key that parse(p) returns from the cache was written by a parse
\* of p itself, never by a parse of another document
C23_ServedEntryWrittenForPath ==
    (pc = "parsed" /\ cached # << >>) => written_for[CachePath(pdf_path)] = pdf_path

\* the call that follows a call of parse at once: the same path, use_cache
\* on, the document as the earlier call left it
ParseCalledAgain ==
    /\ ParseCalled
    /\ pc = "parsed"
    /\ pdf_path' = pdf_path
    /\ use_cache'

C25_FailedCallLeavesCache ==
    [][ParseCalled =>
          /\ ~pdf_files[pdf_path'].exists =>
                /\ pc' = "raised"
                /\ rubric' = Raised("FileNotFoundError")
          /\ pc' = "raised" =>
                /\ cache_dir' = cache_dir
                /\ cached' = << >>
                /\ "raised" \in DOMAIN rubric'
          /\ (pdf_files[pdf_path'].exists /\ pc' = "raised") =>
                rubric' = Raised("ValueError")]_i

\* parse raised on a path without a document although cache_dir holds an
\* entry under that base name that deserializes
C25_Witness ==
    /\ pc = "raised"
    /\ use_cache
    /\ ~pdf_files[pdf_path].exists
    /\ rubric = Raised("FileNotFoundError")
    /\ cache_dir[CachePath(pdf_path)].exists
    /\ cache_dir[CachePath(pdf_path)].content # Truncated

(***************************************************************************)
(* Two calls of RubricParser.parse that run at the same time on one        *)
(* cache_dir, each taken one file operation at a time.                     *)
(***************************************************************************)
\* the callers of parse
Callers == {"t1", "t2"}

\* the documents they parse
RacePaths == { [dir |-> "a", stem |-> "hw1"], [dir |-> "b", stem |-> "hw1"] }

InitRace ==
    /\ pc = [c \in Callers |-> "idle"]
    /\ pdf_files = [path \in RacePaths |->
                       IF path.dir = "a" THEN File(1, Pdf(TRUE, KeyFragments[3]))
                       ELSE File(2, Pdf(TRUE, KeyFragments[6]))]
    /\ cache_dir \in CacheDirs
    /\ written_for = [name \in CachePaths |-> [dir |-> "a", stem |-> "hw1"]]
    /\ clock = 1
    /\ pdf_path = [c \in Callers |-> NoFile]
    /\ use_cache = [c \in Callers |-> FALSE]
    /\ cached = [c \in Callers |-> << >>]
    /\ pdf_text = [c \in Callers |-> << >>]
    /\ rubric = [c \in Callers |-> [returned |-> FALSE]]
    /\ i = 0
    /\ submission = NoResult
    /\ question_grades = << >>
    /\ total_score = 0
    /\ compare_log = << >>
    /\ result = NoResult
    /\ cmp_in = NoCall
    /\ cmp_out = NoCall
    /\ submissions = << >>
    /\ cache_path = NoFile
    /\ answer_text = << >>
    /\ calc_confidence = NoResult
    /\ ToolsIdle

raceFrame == << submission, i, question_grades, total_score, compare_log, result,
                cmp_in, cmp_out, submissions, cache_path, answer_text,
                calc_confidence, pdf_files, toolVars >>

\* parse() is entered: pdf_path.exists() and `if use_cache`
Call(c) ==
    /\ pc[c] = "idle"
    /\ \E path \in RacePaths, use \in BOOLEAN :
          /\ pdf_path' = [pdf_path EXCEPT ![c] = path]
          /\ use_cache' = [use_cache EXCEPT ![c] = use]
          /\ pc' = [pc EXCEPT ![c] = IF ~pdf_files[path].exists THEN "raised"
                                     ELSE IF use THEN "load" ELSE "extract"]
    /\ UNCHANGED << rubric, cached, pdf_text, dirVars, raceFrame >>

\* _load_from_cache: cache_path.exists() and the two st_mtime reads
LoadStat(c) ==
    /\ pc[c] = "load"
    /\ LET cache == cache_dir[CachePath(pdf_path[c])]
       IN  pc' = [pc EXCEPT ![c] =
                     IF ~cache.exists THEN "extract"
                     ELSE IF cache.st_mtime < pdf_files[pdf_path[c]].st_mtime THEN "extract"
                     ELSE "read"]
    /\ UNCHANGED << rubric, cached, pdf_text, pdf_path, use_cache, dirVars, raceFrame >>

\* _load_from_cache: open(cache_path, "r"), json.load and model_validate,
\* then `if cached: return cached` in parse
LoadRead(c) ==
    /\ pc[c] = "read"
    /\ LET cache == cache_dir[CachePath(pdf_path[c])]
       IN  IF cache.content = Truncated
           THEN /\ pc' = [pc EXCEPT ![c] = "extract"]
                /\ UNCHANGED << cached, rubric >>
           ELSE /\ pc' = [pc EXCEPT ![c] = "parsed"]
                /\ cached' = [cached EXCEPT ![c] = << ModelValidate(cache.content) >>]
                /\ rubric' = [rubric EXCEPT ![c] = ModelValidate(cache.content)]
    /\ UNCHANGED << pdf_text, pdf_path, use_cache, dirVars, raceFrame >>

\* _extract_pdf_text, the blank check and _parse_rubric_text
Extract(c) ==
    /\ pc[c] = "extract"
    /\ \E parsed \in { ParsedSources[pdf_files[pdf_path[c]].content] } :
          /\ rubric' = [rubric EXCEPT ![c] = parsed]
          /\ pdf_text' = [pdf_text EXCEPT ![c] = pdf_files[pdf_path[c]].content.text]
          /\ pc' = [pc EXCEPT ![c] = IF "raised" \in DOMAIN parsed THEN "raised" ELSE "save"]
    /\ UNCHANGED << cached, pdf_path, use_cache, dirVars, raceFrame >>

\* _save_to_cache: open(cache_path, "w") empties the file, or fails
SaveOpen(c) ==
    /\ pc[c] = "save"
    /\ \/ /\ pc' = [pc EXCEPT ![c] = "write"]
          /\ cache_dir' = [cache_dir EXCEPT ![CachePath(pdf_path[c])] = File(clock, Truncated)]
          /\ written_for' = [written_for EXCEPT ![CachePath(pdf_path[c])] = pdf_path[c]]
       \/ /\ pc' = [pc EXCEPT ![c] = "parsed"]
          /\ UNCHANGED << cache_dir, written_for >>
    /\ UNCHANGED << rubric, cached, pdf_text, pdf_path, use_cache, clock, raceFrame >>

\* _save_to_cache: f.write and the close of the file: the dump is in the
\* file, or what is there cannot be loaded (the write failed, or its bytes
\* are mixed with those of another writer that had the file open)
SaveWrite(c) ==
    /\ pc[c] = "write"
    /\ \E failure \in {"none", "write"} :
          cache_dir' = [cache_dir EXCEPT ![CachePath(pdf_path[c])] =
                           SaveToCache(@, rubric[c], clock, failure)]
    /\ written_for' = [written_for EXCEPT ![CachePath(pdf_path[c])] = pdf_path[c]]
    /\ pc' = [pc EXCEPT ![c] = "parsed"]
    /\ UNCHANGED << rubric, cached, pdf_text, pdf_path, use_cache, clock, raceFrame >>

\* time passes while the calls run
RaceTick ==
    /\ clock < MaxTime
    /\ clock' = clock + 1
    /\ UNCHANGED << pc, rubric, cached, pdf_text, pdf_path, use_cache, cache_dir,
                    written_for, raceFrame >>

NextRace ==
    \/ \E c \in Callers : Call(c)
    \/ \E c \in Callers : LoadStat(c)
    \/ \E c \in Callers : LoadRead(c)
    \/ \E c \in Callers : Extract(c)
    \/ \E c \in Callers : SaveOpen(c)
    \/ \E c \in Callers : SaveWrite(c)
    \/ RaceTick

SpecRace == InitRace /\ [][NextRace]_vars

\* C22: no caller that reads a cache file finds it emptied or partly written
\* by a _save_to_cache that another caller is in the middle of
C22_NoPartialRead ==
    [][\A c \in Callers :
          (pc[c] = "read" /\ pc'[c] # "read") =>
             ~ /\ cache_dir[CachePath(pdf_path[c])].content = Truncated
               /\ \E w \in Callers \ {c} :
                     pc[w] = "write" /\ CachePath(pdf_path[w]) = CachePath(pdf_path[c])]_pc

(***************************************************************************)
(* grading/grading_engine.py: GradingEngine.grade_batch.                   *)
(***************************************************************************)
MaxBatch == 2

\* grade(submission, rubric) as a function of its arguments and of what
\* SymPy answers
GradeWith(sub, r, sym) ==
    LET subqs == SubQuestionsOf(r)
        grades == [k \in 1..Len(subqs) |->
                      GradeQuestion(subqs[k], GetAnswer(sub, subqs[k].id), sym).grade]
    IN GradeResult(sub, r, grades, FinalScore(r.base_points + EarnedSum(grades)))

\* grade for the question types whose comparison does not go to SymPy
Grade(sub, r) == GradeWith(sub, r, SympyDefault)

\* the sub-question templates whose comparison does not go to SymPy
BatchTemplates ==
    { t \in SubQuestionTemplates : SympyOutcomes(t.question_type) = { SympyDefault } }

\* the rubrics given to grade_batch: two sub-questions under one question
BatchRubrics ==
    { MakeRubric(base_points, flat, 2) :
         base_points \in BasePoints,
         flat \in { f \in [1..2 -> BatchTemplates] :
                       /\ f[1].grading_rule.rule_type \in {"NO_PARTIAL", "PARTIAL_CREDIT"}
                       /\ f[2].grading_rule.rule_type = "PER_ITEM_PENALTY"
                       /\ f[1].question_type # f[2].question_type } }

\* what a submission of the batch holds for a sub-question: nothing, the
\* right answer at the confidence threshold, a wrong answer
BatchChoices == { a \in AnswerChoices : a.confidence \in {-1, 50, 95} }

\* the submissions lists given to grade_batch
BatchesOf(r) ==
    SeqsUpTo({ MakeSubmission(r, choices) : choices \in [1..2 -> BatchChoices] }, MaxBatch)

InitGradeBatch ==
    /\ rubric \in BatchRubrics
    /\ submissions \in BatchesOf(rubric)
    /\ results = << >>
    /\ pc = "batch"
    /\ submission = NoResult
    /\ i = 0
    /\ question_grades = << >>
    /\ total_score = 0
    /\ compare_log = << >>
    /\ result = NoResult
    /\ cmp_in = NoCall
    /\ cmp_out = NoCall
    /\ CacheIdle
    /\ loaded_rubrics = << >>
    /\ tool_in = NoResult
    /\ tool_out = NoResult
    /\ pdf_files = << >>
    /\ pdf_text = << >>
    /\ pdf_path = NoFile
    /\ cache_path = NoFile
    /\ answer_text = << >>
    /\ calc_confidence = NoResult

batchFrame == << rubric, cmpVars, pdf_files, pdf_text, pdf_path, cache_path, answer_text,
                 calc_confidence, cacheVars, loaded_rubrics, tool_in, tool_out >>

GradeBatchNext_KeepScore ==
    /\ pc = "batch"
    /\ Len(results) < Len(submissions)
    /\ submission' = submissions[Len(results) + 1]
    /\ question_grades' = << >>
    /\ total_score' = IF results = << >> THEN rubric.base_points ELSE total_score
    /\ compare_log' = << >>
    /\ i' = 0
    /\ pc' = "grading"
    /\ UNCHANGED << submissions, results, result, batchFrame >>

\* grade_batch, lines 109-111, and grade, lines 60-63: the loop takes the
\* next submission and grade starts on it with locals of its own
GradeBatchNext ==
    /\ pc = "batch"
    /\ Len(results) < Len(submissions)
    /\ submission' = submissions[Len(results) + 1]
    /\ question_grades' = << >>
    /\ total_score' = rubric.base_points
    /\ compare_log' = << >>
    /\ i' = 0
    /\ pc' = "grading"
    /\ UNCHANGED << submissions, results, result, batchFrame >>

GradeBatchAppend_PopInput ==
    /\ pc = "done"
    /\ results' = Append(results, result)
    /\ submissions' = Tail(submissions)
    /\ pc' = "batch"
    /\ UNCHANGED << submission, i, question_grades, total_score, compare_log,
                    result, batchFrame >>

\* grade_batch, line 112: results.append(result)
GradeBatchAppend ==
    /\ pc = "done"
    /\ results' = Append(results, result)
    /\ pc' = "batch"
    /\ UNCHANGED << submission, submissions, i, question_grades, total_score, compare_log,
                    result, batchFrame >>

\* grade_batch, line 115: return results
GradeBatchReturn ==
    /\ pc = "batch"
    /\ Len(results) = Len(submissions)
    /\ pc' = "returned"
    /\ UNCHANGED << submission, submissions, results, i, question_grades, total_score,
                    compare_log, result, batchFrame >>

NextGradeBatch ==
    GradeBatchNext \/ GradeStep \/ GradeFinish \/ GradeBatchAppend \/ GradeBatchReturn

SpecGradeBatch == InitGradeBatch /\ [][NextGradeBatch]_vars

C27_InputsKeptNoCarriedState ==
    [][ /\ rubric' = rubric
        /\ submissions' = submissions
        /\ pc' = "grading" =>
              /\ submission' = submissions[Len(results) + 1]
              /\ submission' \in { submissions[k] : k \in 1..Len(submissions) }
        /\ (pc = "batch" /\ pc' = "grading") =>
              /\ question_grades' = << >>
              /\ total_score' = rubric.base_points
              /\ i' = 0 ]_<< pc, i >>

\* grade started on the second submission after a first one that earned
\* points
C27_Witness ==
    /\ pc = "grading"
    /\ i = 0
    /\ Len(results) = 1
    /\ results[1].total_score > 0
    /\ question_grades = << >>
    /\ submission = submissions[2]

(***************************************************************************)
(* grade() on the answer keys that RubricParser makes.                     *)
(***************************************************************************)
\* the key texts: base points with a +1/-1 question worth 2 points, a
\* question with a part that has no solution, a question whose note states
\* a floor of 2, and the two-part question under that note
GradeKeyTexts ==
    { KeyFragments[1] \o KeyFragments[2], KeyFragments[2], KeyFragments[3],
      KeyFragments[6] \o KeyFragments[5], KeyFragments[3] \o KeyFragments[5] }

\* _parse_rubric_text on each of them
GradeKeys == { ParseRubricText(text) : text \in GradeKeyTexts }

\* what a student hands in for a sub-question: nothing, the canonical
\* solution at the confidence threshold or below it, something else
AnswerKinds == {"absent", "solution", "unsure", "other"}

AnswerOfKind(sub_q, kind) ==
    CASE kind = "solution" -> << StudentAnswer(sub_q.id, sub_q.solution.value, sub_q.solution.value, 50) >>
      [] kind = "unsure" -> << StudentAnswer(sub_q.id, sub_q.solution.value, sub_q.solution.value, 40) >>
      [] kind = "other" -> << StudentAnswer(sub_q.id, << "z" >>, << "z" >>, 95) >>
      [] OTHER -> << >>

\* the submissions for a key: one kind of answer for each sub-question
KeySubmissions(r) ==
    { [student_id |-> "student_001",
       assignment_id |-> r.assignment_id,
       answers |-> Flatten([k \in 1..Len(SubQuestionsOf(r)) |->
                               AnswerOfKind(SubQuestionsOf(r)[k], kinds[k])])] :
      kinds \in [1..Len(SubQuestionsOf(r)) -> AnswerKinds] }

InitKeyGrade ==
    /\ rubric \in GradeKeys
    /\ submission \in KeySubmissions(rubric)
    /\ pc = "grading"
    /\ i = 0
    /\ question_grades = << >>
    /\ total_score = rubric.base_points
    /\ compare_log = << >>
    /\ result = NoResult
    /\ cmp_in = NoCall
    /\ cmp_out = NoCall
    /\ ParsersIdle

NextKeyGrade == GradeStep \/ GradeFinish

SpecKeyGrade == InitKeyGrade /\ [][NextKeyGrade]_vars

(***************************************************************************)
(* Claims about grading against parser-made keys.                          *)
(***************************************************************************)
\* the submission answers every sub-question of the key with its canonical
\* solution, extracted with confidence 0.5 or more
AnswersEverySolution ==
    \A k \in 1..Len(SubQuestionsOf(rubric)) :
       LET a == GetAnswer(submission, SubQuestionsOf(rubric)[k].id)
       IN  /\ a # << >>
           /\ a[1].raw_text = SubQuestionsOf(rubric)[k].solution.value
           /\ a[1].parsed_value = SubQuestionsOf(rubric)[k].solution.value
           /\ a[1].confidence >= 50

\* C28: a submission that answers every sub-question of a parser-made key
\* with its canonical solution is graded with every QuestionGrade correct,
\* total_score equal to total_possible and percentage 100
C28_SolutionsScoreFull ==
    (pc = "done" /\ AnswersEverySolution) =>
       /\ \A k \in 1..Len(result.question_grades) : result.question_grades[k].is_correct
       /\ result.total_score = result.total_possible
       /\ result.percentage = Divide(100, 1)

\* C29: whatever the submission, the result for a parser-made key has a
\* percentage from 0 to 100 and every QuestionGrade has points_earned from
\* 0 to points_possible
C29_ScoresWithinBounds ==
    pc = "done" =>
       /\ 0 <= result.percentage.num
       /\ result.percentage.num <= 100 * result.percentage.den
       /\ \A k \in 1..Len(result.question_grades) :
             /\ 0 <= result.question_grades[k].points_earned
             /\ result.question_grades[k].points_earned <= result.question_grades[k].points_possible

(***************************************************************************)
(* tools.py: load_rubric, grade_submission and grade_batch over the        *)
(* registry _loaded_rubrics.                                               *)
(***************************************************************************)
\* the rubric_name arguments
RubricNames == {"default", "hw10"}

\* a path where no submission is
MissingDocument == [name |-> << "n", "o", "n", "e" >>, exists |-> FALSE, opens |-> FALSE, text |-> << >>]

\* the submission_path arguments: a submission with answers, a file that
\* fitz cannot open, a path without a file
ToolDocuments == { d \in Documents : Len(d.name) > 3 } \cup { MissingDocument }

\* the submissions_folder arguments: the files glob finds there
ToolFolders == { fs \in FileLists : \A k \in 1..Len(fs) : Len(fs[k].name) > 3 }

\* what SymPy may answer during one tool call
ToolSympy == { SympyDefault, [SympyDefault EXCEPT !.simplify = "zero"] }

\* the rubrics that load_rubric can register
ToolKeys == { ParsedSources[pdf] : pdf \in { p \in SourcePdfs : ~("raised" \in DOMAIN ParsedSources[p]) } }

\* SubmissionParser.parse on each document for each of these rubrics,
\* computed once
ParsedSubmissions == [d \in ToolDocuments |-> [r \in ToolKeys |-> Parse(d, r)]]

\* the strings the tools return
RubricLoaded(name, r) ==
    [tool |-> "load_rubric", status |-> "loaded", rubric_name |-> name,
     assignment_id |-> r.assignment_id, total_points |-> r.total_points,
     questions |-> Len(r.questions)]

ToolError(tool, exception) == [tool |-> tool, status |-> "error", error |-> exception]

NotLoaded(tool, name) == [tool |-> tool, status |-> "not loaded", rubric_name |-> name]

\* GradeResult.to_student_report: the header, the score line, one block per
\* sub-question and the overall feedback
StudentReport(tool, res) ==
    [tool |-> tool, status |-> "report", assignment_id |-> res.assignment_id,
     student_id |-> res.student_id, total_score |-> res.total_score,
     total_possible |-> res.total_possible, percentage |-> res.percentage,
     question_grades |-> res.question_grades, overall_feedback |-> res.overall_feedback]

\* sum(scores) / len(scores) if scores else 0, as an exact fraction
RECURSIVE SumOfFractions(_)
SumOfFractions(fs) ==
    IF fs = << >> THEN Divide(0, 1)
    ELSE LET rest == SumOfFractions(Tail(fs))
         IN Divide(Head(fs).num * rest.den + rest.num * Head(fs).den, Head(fs).den * rest.den)

Average(scores) ==
    IF scores = << >> THEN Divide(0, 1)
    ELSE Divide(SumOfFractions(scores).num, SumOfFractions(scores).den * Len(scores))

BatchComplete(tool, res) ==
    [tool |-> tool, status |-> "batch complete", graded |-> Len(res),
     average |-> Average([k \in 1..Len(res) |-> res[k].percentage])]

\* parse_batch(pdf_dir, rubric) as a function: the submissions of the
\* documents that parse accepts, in the order of the directory listing
ParseBatch(files, r) ==
    LET parsed == [k \in 1..Len(files) |-> ParsedSubmissions[files[k]][r]]
        Accepted(s) == ~("raised" \in DOMAIN s)
    IN SelectSeq(parsed, Accepted)

\* _loaded_rubrics[rubric_name] = rubric
Register(registry, name, r) ==
    [n \in DOMAIN registry \cup {name} |-> IF n = name THEN r ELSE registry[n]]

InitTools ==
    /\ loaded_rubrics = << >>
    /\ tool_in = [tool |-> "none", rubric_name |-> "none"]
    /\ tool_out = [tool |-> "none", status |-> "none"]
    /\ pdf_files \in SourceFiles
    /\ cache_dir = [name \in CachePaths |-> NoFile]
    /\ written_for = [name \in CachePaths |-> [dir |-> "a", stem |-> "hw1"]]
    /\ clock = 1
    /\ i = 0
    /\ pc = "idle"
    /\ rubric = NoResult
    /\ submission = << >>
    /\ submissions = << >>
    /\ result = << >>
    /\ results = << >>
    /\ pdf_path = NoFile
    /\ use_cache = FALSE
    /\ cached = << >>
    /\ pdf_text = << >>
    /\ question_grades = << >>
    /\ total_score = 0
    /\ compare_log = << >>
    /\ cmp_in = NoCall
    /\ cmp_out = NoCall
    /\ cache_path = NoFile
    /\ answer_text = << >>
    /\ calc_confidence = NoResult

toolFrame == << question_grades, total_score, compare_log, cmpVars, pdf_files, cache_path,
                answer_text, calc_confidence, clock >>

parseLocals == << pdf_path, use_cache, cached, pdf_text, cache_dir, written_for >>

LoadRubricTool_RegistersFirst ==
    /\ i < MaxCalls
    /\ i' = i + 1
    /\ pc' = "returned"
    /\ \E path \in SourcePaths, name \in RubricNames, failure \in {"none", "open", "write"} :
          /\ tool_in' = [tool |-> "load_rubric", rubric_name |-> name]
          /\ ParseStep(path, TRUE, failure)
          /\ loaded_rubrics' = Register(loaded_rubrics, name, rubric')
          /\ IF "raised" \in DOMAIN rubric'
             THEN tool_out' = ToolError("load_rubric", rubric'.raised)
             ELSE tool_out' = RubricLoaded(name, rubric')
    /\ submission' = << >>
    /\ submissions' = << >>
    /\ result' = << >>
    /\ results' = << >>
    /\ UNCHANGED toolFrame

\* load_rubric(rubric_path, rubric_name)
LoadRubricTool ==
    /\ i < MaxCalls
    /\ i' = i + 1
    /\ pc' = "returned"
    /\ \E path \in SourcePaths, name \in RubricNames, failure \in {"none", "open", "write"} :
          /\ tool_in' = [tool |-> "load_rubric", rubric_name |-> name]
          /\ ParseStep(path, TRUE, failure)
          /\ IF "raised" \in DOMAIN rubric'
             THEN /\ loaded_rubrics' = loaded_rubrics
                  /\ tool_out' = ToolError("load_rubric", rubric'.raised)
             ELSE /\ loaded_rubrics' = Register(loaded_rubrics, name, rubric')
                  /\ tool_out' = RubricLoaded(name, rubric')
    /\ submission' = << >>
    /\ submissions' = << >>
    /\ result' = << >>
    /\ results' = << >>
    /\ UNCHANGED toolFrame

\* grade_submission(submission_path, rubric_name)
GradeSubmissionTool ==
    /\ i < MaxCalls
    /\ i' = i + 1
    /\ pc' = "returned"
    /\ \E doc \in ToolDocuments, name \in RubricNames, sym \in ToolSympy :
          /\ tool_in' = [tool |-> "grade_submission", rubric_name |-> name]
          /\ IF name \notin DOMAIN loaded_rubrics
             THEN /\ tool_out' = NotLoaded("grade_submission", name)
                  /\ submission' = << >>
                  /\ result' = << >>
                  /\ UNCHANGED rubric
             ELSE \E parsed \in { ParsedSubmissions[doc][loaded_rubrics[name]] } :
                     /\ rubric' = loaded_rubrics[name]
                     /\ IF "raised" \in DOMAIN parsed
                        THEN /\ submission' = << >>
                             /\ result' = << >>
                             /\ tool_out' = ToolError("grade_submission", parsed.raised)
                        ELSE \E res \in { GradeWith(parsed, loaded_rubrics[name], sym) } :
                                /\ submission' = << parsed >>
                                /\ result' = << res >>
                                /\ tool_out' = StudentReport("grade_submission", res)
    /\ submissions' = << >>
    /\ results' = << >>
    /\ UNCHANGED << loaded_rubrics, parseLocals, toolFrame >>

\* grade_batch(submissions_folder, rubric_name)
GradeBatchTool ==
    /\ i < MaxCalls
    /\ i' = i + 1
    /\ pc' = "returned"
    /\ \E files \in ToolFolders, name \in RubricNames, sym \in ToolSympy :
          /\ tool_in' = [tool |-> "grade_batch", rubric_name |-> name]
          /\ IF name \notin DOMAIN loaded_rubrics
             THEN /\ tool_out' = NotLoaded("grade_batch", name)
                  /\ submissions' = << >>
                  /\ results' = << >>
                  /\ UNCHANGED rubric
             ELSE \E parsed \in { ParseBatch(files, loaded_rubrics[name]) } :
                     /\ rubric' = loaded_rubrics[name]
                     /\ submissions' = parsed
                     /\ results' = [k \in 1..Len(parsed) |->
                                       GradeWith(parsed[k], loaded_rubrics[name], sym)]
                     /\ tool_out' = BatchComplete("grade_batch", results')
    /\ submission' = << >>
    /\ result' = << >>
    /\ UNCHANGED << loaded_rubrics, parseLocals, toolFrame >>

NextTools == LoadRubricTool \/ GradeSubmissionTool \/ GradeBatchTool

SpecTools == InitTools /\ [][NextTools]_vars

(***************************************************************************)
(* Claims about the tool layer.                                            *)
(***************************************************************************)
\* the names for which a load_rubric has succeeded so far are the names of
\* the registry: the registry changes only in a load_rubric that reports
\* 'loaded', and then by that name alone
RegistryStep ==
    IF tool_in'.tool = "load_rubric" /\ tool_out'.status = "loaded"
    THEN /\ DOMAIN loaded_rubrics' = DOMAIN loaded_rubrics \cup { tool_in'.rubric_name }
         /\ \A n \in DOMAIN loaded_rubrics \ { tool_in'.rubric_name } :
               loaded_rubrics'[n] = loaded_rubrics[n]
    ELSE /\ DOMAIN loaded_rubrics' = DOMAIN loaded_rubrics
         /\ \A n \in DOMAIN loaded_rubrics : loaded_rubrics'[n] = loaded_rubrics[n]

\* a grade tool parsed or graded something in this step
GradeWorkDone ==
    \/ submission' # << >>
    \/ result' # << >>
    \/ tool_out'.status \in {"report", "batch complete", "error"}

\* C30: every tool call returns a message; the registry gets a name only from
\* a load_rubric that succeeded and a load_rubric that failed leaves it as
\* it was; a grade_submission or grade_batch for a name that is not in the
\* registry returns the 'not loaded' message and parses and grades nothing,
\* and one that parses or grades is for a name in the registry and uses the
\* rubric registered under it
C30_GradeOnlyAfterLoad ==
    [][ /\ pc' = "returned"
        /\ tool_out'.status \in {"loaded", "error", "not loaded", "report", "batch complete"}
        /\ RegistryStep
        /\ tool_in'.tool \in {"grade_submission", "grade_batch"} =>
              IF tool_in'.rubric_name \in DOMAIN loaded_rubrics
              THEN /\ GradeWorkDone
                   /\ rubric' = loaded_rubrics[tool_in'.rubric_name]
              ELSE /\ tool_out'.status = "not loaded"
                   /\ submission' = << >> /\ result' = << >>
                   /\ submissions' = << >> /\ results' = << >>
                   /\ parseLocals' = parseLocals ]_i

\* grade_submission was carried out for a name that an earlier load_rubric
\* had registered, and returned the student report
C30_Witness ==
    /\ i = 2
    /\ pc = "returned"
    /\ tool_in.tool = "grade_submission"
    /\ tool_in.rubric_name \in DOMAIN loaded_rubrics
    /\ tool_out.status = "report"
    /\ result # << >>
    /\ rubric = loaded_rubrics[tool_in.rubric_name]

====
